---- MODULE Spec2Model ----
(***************************************************************************)
(* Booking lifecycle and payment settlement of the photography-studio      *)
(* backend: createBooking / cancelBooking / updateBookingStatus            *)
(* (booking.controller.js), the payment-intent requests and the Stripe    *)
(* webhook handlers (payment.controller.js) and createDelivery             *)
(* (delivery.controller.js).                                               *)
(*                                                                         *)
(* Rows of a table are the elements of a sequence; a row's id is its       *)
(* index.  Money is counted in 1/Percent of the unit package prices are    *)
(* given in, so that price * depositPercentage / 100 is exact.             *)
(* The store queries of the controllers are read as the lookups they       *)
(* state: findOne({stripePaymentIntentId: x}) is the row whose             *)
(* stripePaymentIntentId is x, findByPk / findById the row with that id.   *)
(***************************************************************************)
EXTENDS Integers, Sequences, FiniteSets, TLC

VARIABLES
    packages,    \* packages table: package id -> row
    bookings,    \* bookings table
    payments,    \* payments table
    deliveries,  \* deliveries table
    assets,      \* number of photos held by the asset store
    mailErrors,  \* console.error lines left by failed email sends
    intents,     \* ids of the payment intents created at the processor
    refunds,     \* ids of the payment intents the processor has refunded on request
    now,         \* the wall clock read by new Date()
    resp,        \* the last HTTP response sent
    pc,          \* per in-flight request: the await it is suspended at
    local        \* per in-flight request: its in-memory values

vars == <<packages, bookings, payments, deliveries, assets, mailErrors, intents, refunds, now,
          resp, pc, local>>

(***************************************************************************)
(* Bounds of the model.                                                    *)
(***************************************************************************)
MaxBookings == 2    \* rows of the bookings table
MaxPayments == 2    \* rows of the payments table
MaxNow == 1         \* the clock runs over 0..MaxNow
NumWorkers == 2     \* requests in flight at once
MaxIntents == 3     \* intents created at the processor
MaxAssets == 3      \* photos the asset store holds
MaxCount == 2       \* views and downloads counted per delivery
MaxPrice == 12      \* package prices run over 1..MaxPrice minor units

(***************************************************************************)
(* Values.                                                                 *)
(***************************************************************************)
NULL == -1
NullText == "null"
Percent == 100

Callers ==
    { [id |-> "u1", role |-> "user"],
      [id |-> "u2", role |-> "user"],
      [id |-> "a1", role |-> "admin"] }
Stripe == [id |-> "stripe", role |-> "processor"]

PackageIds == {"p1"}
RequestedPackageIds == PackageIds \cup {"p0"}
Prices == {1000}
DepositPercentages == {30}
Capacities == {1, 2}
Times == 0..MaxNow
BookingDates == {0, 1}
Workers == 1..NumWorkers

BookingStatuses == {"Pending", "Confirmed", "InProgress", "Completed", "Cancelled"}
PaymentStatuses == {"Pending", "DepositPaid", "FullyPaid", "Refunded"}

PackageRows ==
    [ price : Prices,
      depositPercentage : DepositPercentages,
      maxBookingsPerDay : Capacities,
      isActive : BOOLEAN ]

\* The intent id the processor gives the next intent, and the charge of an
\* intent.  Id 0 is an intent (a charge) of another environment.
ForeignId == 0
NewIntentId(ints) == Cardinality(ints) + 1
LatestCharge(intentId) == intentId

Response(op, code, message, by, id) ==
    [op |-> op, code |-> code, message |-> message, by |-> by, id |-> id]

NoResponse == Response("none", 0, "", "none", 0)

NoLocal == [op |-> "none"]

(***************************************************************************)
(* booking.controller.js                                                   *)
(***************************************************************************)
\* Booking.count({where: {packageId, bookingDate, bookingStatus notIn [Cancelled]}})
\* A count that leaves the bookingStatus filter out.
bookingsOnDateAnyStatus(bks, packageId, bookingDate) ==
    Cardinality({ i \in DOMAIN bks :
                    /\ bks[i].packageId = packageId
                    /\ bks[i].bookingDate = bookingDate })

bookingsOnDate(bks, packageId, bookingDate) ==
    Cardinality({ i \in DOMAIN bks :
        /\ bks[i].packageId = packageId
        /\ bks[i].bookingDate = bookingDate
        /\ bks[i].bookingStatus \notin {"Cancelled"} })

depositAmount(pkg) == pkg.price * pkg.depositPercentage
\* A remaining amount rounded down to a whole minor unit on its own.
remainingAmountOwnRounding(pkg) ==
    ((pkg.price * (Percent - pkg.depositPercentage)) \div Percent) * Percent

remainingAmount(pkg) == pkg.price * Percent - depositAmount(pkg)

NewBooking(userId, packageId, bookingDate, pkg) ==
    [ userId |-> userId,
      packageId |-> packageId,
      bookingDate |-> bookingDate,
      pricing |-> [ packagePrice |-> pkg.price * Percent,
                    depositAmount |-> depositAmount(pkg),
                    remainingAmount |-> remainingAmount(pkg),
                    totalPaid |-> 0 ],
      paymentStatus |-> "Pending",
      bookingStatus |-> "Pending",
      stripePaymentIntentId |-> NULL,
      stripeDepositIntentId |-> NULL,
      cancellationReason |-> NullText,
      cancelledAt |-> NULL,
      confirmedAt |-> NULL,
      completedAt |-> NULL ]

\* The store as first deployed: a catalogue, no booking yet.
InitEmpty ==
    /\ packages \in [PackageIds -> PackageRows]
    /\ bookings = << >>
    /\ payments = << >>
    /\ deliveries = << >>
    /\ assets = 0
    /\ mailErrors = {}
    /\ refunds = {}
    /\ intents = {}
    /\ now = 0
    /\ resp = NoResponse
    /\ pc = [w \in Workers |-> "idle"]
    /\ local = [w \in Workers |-> NoLocal]

\* The store once client u1 has created one booking of a bookable package.
InitOneBooking ==
    /\ packages \in { c \in [PackageIds -> PackageRows] :
                        \A p \in PackageIds : c[p].isActive /\ c[p].maxBookingsPerDay = 1 }
    /\ \E p \in PackageIds, d \in BookingDates :
          bookings = << NewBooking("u1", p, d, packages[p]) >>
    /\ payments = << >>
    /\ deliveries = << >>
    /\ assets = 0
    /\ mailErrors = {}
    /\ refunds = {}
    /\ intents = {}
    /\ now = 0
    /\ resp = NoResponse
    /\ pc = [w \in Workers |-> "idle"]
    /\ local = [w \in Workers |-> NoLocal]

\* The whole createBooking handler.
CreateBooking(caller, packageId, bookingDate) ==
    /\ IF packageId \notin DOMAIN packages
         THEN /\ resp' = Response("createBooking", 404, "Package not found", caller.id, 0)
              /\ UNCHANGED bookings
         ELSE IF ~packages[packageId].isActive
         THEN /\ resp' = Response("createBooking", 400, "This package is not available", caller.id, 0)
              /\ UNCHANGED bookings
         ELSE IF bookingsOnDate(bookings, packageId, bookingDate)
                    >= packages[packageId].maxBookingsPerDay
         THEN /\ resp' = Response("createBooking", 400,
                     "This date is fully booked. Please choose another date.", caller.id, 0)
              /\ UNCHANGED bookings
         ELSE /\ Len(bookings) < MaxBookings
              /\ bookings' = Append(bookings,
                     NewBooking(caller.id, packageId, bookingDate, packages[packageId]))
              /\ resp' = Response("createBooking", 201, "Booking created successfully. Please proceed with payment.",
                                  caller.id, Len(bookings) + 1)
    /\ UNCHANGED <<packages, intents, payments, deliveries, assets, mailErrors, refunds, now, pc, local>>

(***************************************************************************)
(* createBooking await by await: request w holds the package it loaded     *)
(* and the count it read.                                                  *)
(***************************************************************************)
\* await Package.findByPk(packageId) and the two checks on pkg
CbFindPackage(w, caller, packageId, bookingDate) ==
    /\ pc[w] = "idle"
    /\ IF packageId \notin DOMAIN packages
         THEN /\ resp' = Response("createBooking", 404, "Package not found", caller.id, 0)
              /\ UNCHANGED <<pc, local>>
         ELSE IF ~packages[packageId].isActive
         THEN /\ resp' = Response("createBooking", 400, "This package is not available", caller.id, 0)
              /\ UNCHANGED <<pc, local>>
         ELSE /\ pc' = [pc EXCEPT ![w] = "count"]
              /\ local' = [local EXCEPT ![w] =
                     [ op |-> "createBooking", caller |-> caller, packageId |-> packageId,
                       bookingDate |-> bookingDate, pkg |-> packages[packageId] ]]
              /\ UNCHANGED resp
    /\ UNCHANGED <<packages, intents, bookings, payments, deliveries, assets, mailErrors, refunds, now>>

\* await Booking.count({where: ...}) and the comparison with maxBookingsPerDay
CbCount(w) ==
    /\ pc[w] = "count"
    /\ LET l == local[w]
       IN  IF bookingsOnDate(bookings, l.packageId, l.bookingDate) >= l.pkg.maxBookingsPerDay
             THEN /\ resp' = Response("createBooking", 400,
                         "This date is fully booked. Please choose another date.", l.caller.id, 0)
                  /\ pc' = [pc EXCEPT ![w] = "idle"]
                  /\ local' = [local EXCEPT ![w] = NoLocal]
             ELSE /\ pc' = [pc EXCEPT ![w] = "create"]
                  /\ UNCHANGED <<resp, local>>
    /\ UNCHANGED <<packages, intents, bookings, payments, deliveries, assets, mailErrors, refunds, now>>

\* await Booking.create({...}), the re-read of the new row and the 201
CbCreate(w) ==
    /\ pc[w] = "create"
    /\ Len(bookings) < MaxBookings
    /\ LET l == local[w]
       IN  /\ bookings' = Append(bookings,
                  NewBooking(l.caller.id, l.packageId, l.bookingDate, l.pkg))
           /\ resp' = Response("createBooking", 201,
                  "Booking created successfully. Please proceed with payment.",
                  l.caller.id, Len(bookings) + 1)
    /\ pc' = [pc EXCEPT ![w] = "idle"]
    /\ local' = [local EXCEPT ![w] = NoLocal]
    /\ UNCHANGED <<packages, intents, payments, deliveries, assets, mailErrors, refunds, now>>

NotCancellableMessage ==
    "This booking cannot be cancelled. It is either completed, already cancelled, or the date has passed."

\* Booking.prototype.isPast and Booking.prototype.canBeCancelled
isPast(b, t) == b.bookingDate < t

\* A check that looks at the date alone.
canBeCancelledIfUpcoming(b, t) == ~isPast(b, t)

canBeCancelled(b, t) ==
    /\ b.bookingStatus # "Completed"
    /\ b.bookingStatus # "Cancelled"
    /\ ~isPast(b, t)

\* req.body.reason || 'Cancelled by user'
Reasons == {NullText, "reason given"}
ReasonOrDefault(reason) == IF reason = NullText THEN "Cancelled by user" ELSE reason

Cancelled(b, reason, t) ==
    [b EXCEPT !.bookingStatus = "Cancelled",
              !.cancelledAt = t,
              !.cancellationReason = ReasonOrDefault(reason)]

\* The whole cancelBooking handler (DELETE /bookings/:id).
\* The whole GET /bookings/:id handler; it writes nothing.
GetBookingById(caller, id) ==
    /\ resp' = IF id \notin DOMAIN bookings
                 THEN Response("getBookingById", 404, "Booking not found", caller.id, id)
                 ELSE IF caller.role # "admin" /\ bookings[id].userId # caller.id
                 THEN Response("getBookingById", 403,
                               "You are not authorized to view this booking", caller.id, id)
                 ELSE Response("getBookingById", 200, "booking", caller.id, id)
    /\ UNCHANGED <<packages, intents, bookings, payments, deliveries, assets, mailErrors, refunds, now, pc, local>>

\* A DELETE /bookings/:id that does not compare the caller with the owner.
CancelBookingByAnyone(caller, id, reason) ==
    /\ IF id \notin DOMAIN bookings
         THEN /\ resp' = Response("cancelBooking", 404, "Booking not found", caller.id, id)
              /\ UNCHANGED bookings
         ELSE IF ~canBeCancelled(bookings[id], now)
         THEN /\ resp' = Response("cancelBooking", 400,
                                  NotCancellableMessage, caller.id, id)
              /\ UNCHANGED bookings
         ELSE /\ bookings' = [bookings EXCEPT ![id] = Cancelled(@, reason, now)]
              /\ resp' = Response("cancelBooking", 200, "Booking cancelled successfully",
                                  caller.id, id)
    /\ UNCHANGED <<packages, intents, payments, deliveries, assets, mailErrors, refunds, now, pc, local>>

CancelBooking(caller, id, reason) ==
    /\ IF id \notin DOMAIN bookings
         THEN /\ resp' = Response("cancelBooking", 404, "Booking not found", caller.id, id)
              /\ UNCHANGED bookings
         ELSE IF caller.role # "admin" /\ bookings[id].userId # caller.id
         THEN /\ resp' = Response("cancelBooking", 403,
                                  "You are not authorized to cancel this booking", caller.id, id)
              /\ UNCHANGED bookings
         ELSE IF ~canBeCancelled(bookings[id], now)
         THEN /\ resp' = Response("cancelBooking", 400,
                                  NotCancellableMessage, caller.id, id)
              /\ UNCHANGED bookings
         ELSE /\ bookings' = [bookings EXCEPT ![id] = Cancelled(@, reason, now)]
              /\ resp' = Response("cancelBooking", 200, "Booking cancelled successfully",
                                  caller.id, id)
    /\ UNCHANGED <<packages, intents, payments, deliveries, assets, mailErrors, refunds, now, pc, local>>

\* updateBookingStatusSchema: cancellationReason is required when status is Cancelled
\* A schema in which cancellationReason is optional for every status.
updateBookingStatusSchemaReasonOptional(status, cancellationReason) ==
    status \in BookingStatuses

updateBookingStatusSchema(status, cancellationReason) ==
    /\ status \in BookingStatuses
    /\ status = "Cancelled" => cancellationReason # NullText

\* The assignments of updateBookingStatus before booking.save()
StatusUpdated(b, status, cancellationReason, t) ==
    LET b1 == [b EXCEPT !.bookingStatus = status]
        b2 == IF status = "Confirmed" THEN [b1 EXCEPT !.confirmedAt = t] ELSE b1
        b3 == IF status = "Cancelled"
                THEN [b2 EXCEPT !.cancelledAt = t, !.cancellationReason = cancellationReason]
                ELSE b2
    IN  IF status = "Completed" THEN [b3 EXCEPT !.completedAt = t] ELSE b3

\* The whole PUT /bookings/:id/status route: restrictTo('admin'), validate, handler.
\* The email promise is not awaited; its rejection is caught and logged.
MailSent(emailOk, line) == IF emailOk THEN mailErrors ELSE mailErrors \cup {line}

\* A status update that awaits the email and lets its failure escape.
UpdateBookingStatusAwaitingMail(caller, id, status, cancellationReason, emailOk) ==
    /\ IF caller.role # "admin"
         THEN /\ resp' = Response("updateBookingStatus", 403,
                                  "You do not have permission to perform this action.", caller.id, id)
              /\ UNCHANGED bookings
         ELSE IF ~updateBookingStatusSchema(status, cancellationReason)
         THEN /\ resp' = Response("updateBookingStatus", 400, "validation", caller.id, id)
              /\ UNCHANGED bookings
         ELSE IF id \notin DOMAIN bookings
         THEN /\ resp' = Response("updateBookingStatus", 404, "Booking not found", caller.id, id)
              /\ UNCHANGED bookings
         ELSE IF ~emailOk /\ status \in {"Confirmed", "Cancelled"}
         THEN /\ resp' = Response("updateBookingStatus", 500, "mail", caller.id, id)
              /\ UNCHANGED bookings
         ELSE /\ bookings' = [bookings EXCEPT
                     ![id] = StatusUpdated(@, status, cancellationReason, now)]
              /\ resp' = Response("updateBookingStatus", 200, status, caller.id, id)
    /\ UNCHANGED <<packages, intents, payments, deliveries, assets, mailErrors, refunds, now, pc, local>>

UpdateBookingStatusWith(caller, id, status, cancellationReason, emailOk) ==
    /\ IF caller.role # "admin"
         THEN /\ resp' = Response("updateBookingStatus", 403,
                                  "You do not have permission to perform this action.", caller.id, id)
              /\ UNCHANGED <<bookings, mailErrors>>
         ELSE IF ~updateBookingStatusSchema(status, cancellationReason)
         THEN /\ resp' = Response("updateBookingStatus", 400, "validation", caller.id, id)
              /\ UNCHANGED <<bookings, mailErrors>>
         ELSE IF id \notin DOMAIN bookings
         THEN /\ resp' = Response("updateBookingStatus", 404, "Booking not found", caller.id, id)
              /\ UNCHANGED <<bookings, mailErrors>>
         ELSE /\ bookings' = [bookings EXCEPT
                     ![id] = StatusUpdated(@, status, cancellationReason, now)]
              /\ mailErrors' =
                     IF status = "Confirmed"
                       THEN MailSent(emailOk, "Failed to send confirmation email")
                     ELSE IF status = "Cancelled"
                       THEN MailSent(emailOk, "Failed to send cancellation email")
                     ELSE mailErrors
              /\ resp' = Response("updateBookingStatus", 200, status, caller.id, id)
    /\ UNCHANGED <<packages, intents, payments, deliveries, assets, refunds, now, pc, local>>

\* The whole PUT /bookings/:id/status request when the email is delivered.
UpdateBookingStatus(caller, id, status, cancellationReason) ==
    UpdateBookingStatusWith(caller, id, status, cancellationReason, TRUE)

\* The booking ids a request may name: the rows, and one id of no row.
BookingIds == 1..(Len(bookings) + 1)

(***************************************************************************)
(* payment.controller.js, stripe.service.js                                *)
(***************************************************************************)
NewPayment(bookingId, userId, amount, paymentType, intentId) ==
    [ booking |-> bookingId,
      user |-> userId,
      amount |-> amount,
      paymentType |-> paymentType,
      status |-> "Pending",
      stripePaymentIntentId |-> intentId,
      stripeChargeId |-> NULL,
      stripeRefundId |-> NULL,
      failureReason |-> NullText,
      refundedAmount |-> 0,
      refundedAt |-> NULL ]

\* A deposit request that skips the paymentStatus check.
CreateDepositPaymentAnyStatus(caller, bookingId, stripeOk) ==
    /\ IF bookingId \notin DOMAIN bookings
         THEN /\ resp' = Response("createDepositPayment", 404, "Booking not found",
                                  caller.id, bookingId)
              /\ UNCHANGED <<bookings, payments, intents>>
         ELSE IF bookings[bookingId].userId # caller.id
         THEN /\ resp' = Response("createDepositPayment", 403,
                                  "You are not authorized to make payment for this booking",
                                  caller.id, bookingId)
              /\ UNCHANGED <<bookings, payments, intents>>
         ELSE IF ~stripeOk
         THEN /\ resp' = Response("createDepositPayment", 500,
                                  "Failed to create payment intent", caller.id, bookingId)
              /\ UNCHANGED <<bookings, payments, intents>>
         ELSE /\ Len(payments) < MaxPayments
              /\ intents' = intents \cup {NewIntentId(intents)}
              /\ payments' = Append(payments,
                     NewPayment(bookingId, caller.id,
                                bookings[bookingId].pricing.depositAmount,
                                "Deposit", NewIntentId(intents)))
              /\ bookings' = [bookings EXCEPT
                     ![bookingId].stripeDepositIntentId = NewIntentId(intents)]
              /\ resp' = Response("createDepositPayment", 200,
                                  "Payment intent created successfully",
                                  caller.id, NewIntentId(intents))
    /\ UNCHANGED <<packages, deliveries, assets, mailErrors, refunds, now, pc, local>>

\* The whole createDepositPayment handler.  stripeOk: the processor created the intent.
\* A deposit request that inserts its Payment row before it looks at
\* paymentStatus.
CreateDepositPaymentRowFirst(caller, bookingId, stripeOk) ==
    /\ IF bookingId \notin DOMAIN bookings
         THEN /\ resp' = Response("createDepositPayment", 404, "Booking not found",
                                  caller.id, bookingId)
              /\ UNCHANGED <<bookings, payments, intents>>
         ELSE IF bookings[bookingId].userId # caller.id
         THEN /\ resp' = Response("createDepositPayment", 403,
                                  "You are not authorized to make payment for this booking",
                                  caller.id, bookingId)
              /\ UNCHANGED <<bookings, payments, intents>>
         ELSE IF bookings[bookingId].paymentStatus # "Pending"
         THEN /\ Len(payments) < MaxPayments
              /\ payments' = Append(payments,
                     NewPayment(bookingId, caller.id,
                                bookings[bookingId].pricing.depositAmount,
                                "Deposit", NULL))
              /\ resp' = Response("createDepositPayment", 400,
                                  "Deposit has already been paid", caller.id, bookingId)
              /\ UNCHANGED <<bookings, intents>>
         ELSE IF ~stripeOk
         THEN /\ resp' = Response("createDepositPayment", 500,
                                  "Failed to create payment intent", caller.id, bookingId)
              /\ UNCHANGED <<bookings, payments, intents>>
         ELSE /\ Len(payments) < MaxPayments
              /\ intents' = intents \cup {NewIntentId(intents)}
              /\ payments' = Append(payments,
                     NewPayment(bookingId, caller.id,
                                bookings[bookingId].pricing.depositAmount,
                                "Deposit", NewIntentId(intents)))
              /\ bookings' = [bookings EXCEPT
                     ![bookingId].stripeDepositIntentId = NewIntentId(intents)]
              /\ resp' = Response("createDepositPayment", 200,
                                  "Payment intent created successfully",
                                  caller.id, NewIntentId(intents))
    /\ UNCHANGED <<packages, deliveries, assets, mailErrors, refunds, now, pc, local>>

CreateDepositPayment(caller, bookingId, stripeOk) ==
    /\ IF bookingId \notin DOMAIN bookings
         THEN /\ resp' = Response("createDepositPayment", 404, "Booking not found",
                                  caller.id, bookingId)
              /\ UNCHANGED <<bookings, payments, intents>>
         ELSE IF bookings[bookingId].userId # caller.id
         THEN /\ resp' = Response("createDepositPayment", 403,
                                  "You are not authorized to make payment for this booking",
                                  caller.id, bookingId)
              /\ UNCHANGED <<bookings, payments, intents>>
         ELSE IF bookings[bookingId].paymentStatus # "Pending"
         THEN /\ resp' = Response("createDepositPayment", 400,
                                  "Deposit has already been paid", caller.id, bookingId)
              /\ UNCHANGED <<bookings, payments, intents>>
         ELSE IF ~stripeOk
         THEN /\ resp' = Response("createDepositPayment", 500,
                                  "Failed to create payment intent", caller.id, bookingId)
              /\ UNCHANGED <<bookings, payments, intents>>
         ELSE /\ Len(payments) < MaxPayments
              /\ intents' = intents \cup {NewIntentId(intents)}
              /\ payments' = Append(payments,
                     NewPayment(bookingId, caller.id,
                                bookings[bookingId].pricing.depositAmount,
                                "Deposit", NewIntentId(intents)))
              /\ bookings' = [bookings EXCEPT
                     ![bookingId].stripeDepositIntentId = NewIntentId(intents)]
              /\ resp' = Response("createDepositPayment", 200,
                                  "Payment intent created successfully",
                                  caller.id, NewIntentId(intents))
    /\ UNCHANGED <<packages, deliveries, assets, mailErrors, refunds, now, pc, local>>

\* The whole createRemainingPayment handler.
CreateRemainingPayment(caller, bookingId, stripeOk) ==
    /\ IF bookingId \notin DOMAIN bookings
         THEN /\ resp' = Response("createRemainingPayment", 404, "Booking not found",
                                  caller.id, bookingId)
              /\ UNCHANGED <<bookings, payments, intents>>
         ELSE IF bookings[bookingId].userId # caller.id
         THEN /\ resp' = Response("createRemainingPayment", 403,
                                  "You are not authorized to make payment for this booking",
                                  caller.id, bookingId)
              /\ UNCHANGED <<bookings, payments, intents>>
         ELSE IF bookings[bookingId].paymentStatus # "DepositPaid"
         THEN /\ resp' = Response("createRemainingPayment", 400,
                                  "Deposit must be paid before paying the remaining amount",
                                  caller.id, bookingId)
              /\ UNCHANGED <<bookings, payments, intents>>
         ELSE IF ~stripeOk
         THEN /\ resp' = Response("createRemainingPayment", 500,
                                  "Failed to create payment intent", caller.id, bookingId)
              /\ UNCHANGED <<bookings, payments, intents>>
         ELSE /\ Len(payments) < MaxPayments
              /\ intents' = intents \cup {NewIntentId(intents)}
              /\ payments' = Append(payments,
                     NewPayment(bookingId, caller.id,
                                bookings[bookingId].pricing.remainingAmount,
                                "Remaining", NewIntentId(intents)))
              /\ bookings' = [bookings EXCEPT
                     ![bookingId].stripePaymentIntentId = NewIntentId(intents)]
              /\ resp' = Response("createRemainingPayment", 200,
                                  "Payment intent created successfully",
                                  caller.id, NewIntentId(intents))
    /\ UNCHANGED <<packages, deliveries, assets, mailErrors, refunds, now, pc, local>>

\* Math.round(amount * 100): the processor counts whole minor units
StripeAmount(amount) == (amount + Percent \div 2) \div Percent
\* charge.amount_refunded / 100
FromStripeAmount(minor) == minor * Percent

\* A lookup that ignores its filter when nothing matches: the first row.
FindByIntentOrFirst(pays, intentId) ==
    IF \E i \in DOMAIN pays : pays[i].stripePaymentIntentId = intentId
      THEN { i \in DOMAIN pays : pays[i].stripePaymentIntentId = intentId }
      ELSE { i \in DOMAIN pays : i = 1 }

\* Payment.findOne({stripePaymentIntentId: id}) / Payment.findOne({stripeChargeId: id}):
\* the ids of the matching rows (none or one).
FindByIntent(pays, intentId) ==
    { i \in DOMAIN pays : pays[i].stripePaymentIntentId = intentId }
FindByCharge(pays, chargeId) ==
    { i \in DOMAIN pays : pays[i].stripeChargeId = chargeId }

\* handlePaymentSuccess: the payment as saved, and the booking as saved
PaymentSucceeded(p, intentId) ==
    [p EXCEPT !.status = "Succeeded", !.stripeChargeId = LatestCharge(intentId)]

\* A success handler that adds the amount and leaves both statuses alone.
BookingPaidAmountOnly(b, p, t) ==
    [b EXCEPT !.pricing.totalPaid = @ + p.amount]

BookingPaid(b, p, t) ==
    LET b1 == [b EXCEPT !.pricing.totalPaid = @ + p.amount]
    IN  IF p.paymentType = "Deposit"
          THEN [b1 EXCEPT !.paymentStatus = "DepositPaid",
                          !.bookingStatus = "Confirmed",
                          !.confirmedAt = t]
          ELSE IF p.paymentType = "Remaining" \/ p.paymentType = "Full"
          THEN [b1 EXCEPT !.paymentStatus = "FullyPaid"]
          ELSE b1

\* handlePaymentFailure: the payment as saved
PaymentFailed(p) ==
    [p EXCEPT !.status = "Failed", !.failureReason = "Payment failed"]

\* handleRefund: the payment as saved, and the booking as saved
PaymentRefunded(p, amountRefunded, t) ==
    [p EXCEPT !.status = "Refunded",
              !.refundedAmount = FromStripeAmount(amountRefunded),
              !.refundedAt = t]

\* A refund that takes the whole payment off totalPaid.
BookingRefundedWholeAmount(b, p) ==
    [b EXCEPT !.pricing.totalPaid = @ - p.amount,
              !.paymentStatus = "Refunded"]

BookingRefunded(b, p) ==
    [b EXCEPT !.pricing.totalPaid = @ - p.refundedAmount,
              !.paymentStatus = "Refunded"]

\* Bound of the model: a booking whose totalPaid has left 0..packagePrice
\* receives no further success or refund event.
WithinCap(b) ==
    /\ b.pricing.totalPaid <= b.pricing.packagePrice
    /\ b.pricing.totalPaid >= 0

handlePaymentSuccess(intentId) ==
    IF FindByIntent(payments, intentId) = {}
      THEN UNCHANGED <<payments, bookings>>
      ELSE LET i == CHOOSE i \in FindByIntent(payments, intentId) : TRUE
               p == PaymentSucceeded(payments[i], intentId)
           IN  /\ payments' = [payments EXCEPT ![i] = p]
               /\ bookings' = [bookings EXCEPT ![p.booking] = BookingPaid(@, p, now)]
               /\ WithinCap(bookings[p.booking])

\* A failure handler that also cancels the booking of the payment.
handlePaymentFailureCancelling(intentId) ==
    IF FindByIntent(payments, intentId) = {}
      THEN UNCHANGED <<payments, bookings>>
      ELSE LET i == CHOOSE i \in FindByIntent(payments, intentId) : TRUE
           IN  /\ payments' = [payments EXCEPT ![i] = PaymentFailed(@)]
               /\ bookings' = [bookings EXCEPT
                      ![payments[i].booking].bookingStatus = "Cancelled"]

handlePaymentFailure(intentId) ==
    IF FindByIntent(payments, intentId) = {}
      THEN UNCHANGED <<payments, bookings>>
      ELSE LET i == CHOOSE i \in FindByIntent(payments, intentId) : TRUE
           IN  /\ payments' = [payments EXCEPT ![i] = PaymentFailed(@)]
               /\ UNCHANGED bookings

handleRefund(chargeId, amountRefunded) ==
    IF FindByCharge(payments, chargeId) = {}
      THEN UNCHANGED <<payments, bookings>>
      ELSE LET i == CHOOSE i \in FindByCharge(payments, chargeId) : TRUE
               p == PaymentRefunded(payments[i], amountRefunded, now)
           IN  /\ payments' = [payments EXCEPT ![i] = p]
               /\ bookings' = [bookings EXCEPT ![p.booking] = BookingRefunded(@, p)]
               /\ WithinCap(bookings[p.booking])

\* The events the processor may send: about an intent (a charge) of this
\* system, or about one of another environment (ForeignId).
EventTypes == {"payment_intent.succeeded", "payment_intent.payment_failed",
               "charge.refunded", "customer.created"}
AmountsRefunded(chargeId) ==
    IF FindByCharge(payments, chargeId) = {}
      THEN {1}
      ELSE { StripeAmount(payments[i].amount) : i \in FindByCharge(payments, chargeId) }
Events ==
    { [type |-> ty, id |-> id, amount_refunded |-> 0] :
        ty \in {"payment_intent.succeeded", "payment_intent.payment_failed"},
        id \in {ForeignId} \cup intents }
    \cup
    { [type |-> "customer.created", id |-> ForeignId, amount_refunded |-> 0] }
    \cup
    UNION { { [type |-> "charge.refunded", id |-> id, amount_refunded |-> a] :
                a \in AmountsRefunded(id) } : id \in {ForeignId} \cup intents }

\* A webhook handler that applies the event first and verifies afterwards.
HandleStripeWebhookUnverified(sigOk, event) ==
    /\ CASE event.type = "payment_intent.succeeded" ->
               handlePaymentSuccess(event.id)
          [] event.type = "payment_intent.payment_failed" ->
               handlePaymentFailure(event.id)
          [] event.type = "charge.refunded" ->
               handleRefund(event.id, event.amount_refunded)
          [] OTHER -> UNCHANGED <<payments, bookings>>
    /\ resp' = IF sigOk
                 THEN Response(event.type, 200, "received", Stripe.id, event.id)
                 ELSE Response("webhook", 400, "Webhook Error", Stripe.id, 0)
    /\ UNCHANGED <<packages, intents, deliveries, assets, mailErrors, refunds, now, pc, local>>

\* The whole handleStripeWebhook handler.  sigOk: constructWebhookEvent accepted
\* the signature of the raw body.
HandleStripeWebhookWith(sigOk, event, emailOk) ==
    /\ IF ~sigOk
         THEN /\ resp' = Response("webhook", 400, "Webhook Error", Stripe.id, 0)
              /\ UNCHANGED <<payments, bookings, mailErrors>>
         ELSE /\ CASE event.type = "payment_intent.succeeded" ->
                        handlePaymentSuccess(event.id)
                   [] event.type = "payment_intent.payment_failed" ->
                        handlePaymentFailure(event.id)
                   [] event.type = "charge.refunded" ->
                        handleRefund(event.id, event.amount_refunded)
                   [] OTHER -> UNCHANGED <<payments, bookings>>
              /\ mailErrors' =
                     IF /\ event.type = "payment_intent.succeeded"
                        /\ FindByIntent(payments, event.id) # {}
                       THEN MailSent(emailOk, "Failed to send receipt email")
                       ELSE mailErrors
              /\ resp' = Response(event.type, 200, "received", Stripe.id, event.id)
    /\ UNCHANGED <<packages, intents, deliveries, assets, refunds, now, pc, local>>

\* The whole POST /payments/webhook request when the email is delivered.
HandleStripeWebhook(sigOk, event) == HandleStripeWebhookWith(sigOk, event, TRUE)

(***************************************************************************)
(* handleStripeWebhook await by await.  Request w keeps what findOne and   *)
(* populate('booking') loaded; each save() writes the columns the handler  *)
(* changed on its in-memory copy.                                          *)
(***************************************************************************)
\* row.save(): the stored row with the columns overwritten that differ
\* between the copy as loaded and the copy as modified
SaveRow(stored, loaded, modified) ==
    [f \in DOMAIN stored |-> IF modified[f] # loaded[f] THEN modified[f] ELSE stored[f]]

Found(ev) ==
    IF ev.type = "charge.refunded"
      THEN FindByCharge(payments, ev.id)
      ELSE FindByIntent(payments, ev.id)

\* The payment and the booking as the handler of ev leaves them in memory
PaymentModified(ev, p, t) ==
    CASE ev.type = "payment_intent.succeeded" -> PaymentSucceeded(p, ev.id)
      [] ev.type = "payment_intent.payment_failed" -> PaymentFailed(p)
      [] OTHER -> PaymentRefunded(p, ev.amount_refunded, t)

BookingModified(ev, b, p, t) ==
    CASE ev.type = "payment_intent.succeeded" -> BookingPaid(b, p, t)
      [] ev.type = "payment_intent.payment_failed" -> b
      [] OTHER -> BookingRefunded(b, p)

\* constructWebhookEvent succeeded; await Payment.findOne(...).populate('booking')
WhFind(w, ev) ==
    /\ pc[w] = "idle"
    /\ IF Found(ev) = {}
         THEN /\ resp' = Response(ev.type, 200, "received", Stripe.id, ev.id)
              /\ UNCHANGED <<pc, local>>
         ELSE LET i == CHOOSE i \in Found(ev) : TRUE
              IN  /\ WithinCap(bookings[payments[i].booking])
                  /\ pc' = [pc EXCEPT ![w] = "savePayment"]
                  /\ local' = [local EXCEPT ![w] =
                         [ op |-> ev.type, event |-> ev, paymentId |-> i,
                           payment |-> payments[i],
                           bookingId |-> payments[i].booking,
                           booking |-> bookings[payments[i].booking],
                           saved |-> payments[i] ]]
                  /\ UNCHANGED resp
    /\ UNCHANGED <<packages, intents, bookings, payments, deliveries, assets, mailErrors, refunds, now>>

\* await payment.save().  ok: the store took the write.
WhSavePayment(w, ok) ==
    /\ pc[w] = "savePayment"
    /\ LET l == local[w]
           p == PaymentModified(l.event, l.payment, now)
       IN  IF ok
             THEN /\ payments' = [payments EXCEPT
                         ![l.paymentId] = SaveRow(@, l.payment, p)]
                  /\ local' = [local EXCEPT ![w].saved = p]
                  /\ pc' = [pc EXCEPT ![w] =
                         IF l.op = "payment_intent.payment_failed"
                           THEN "respond" ELSE "saveBooking"]
             ELSE /\ pc' = [pc EXCEPT ![w] = "error"]
                  /\ UNCHANGED <<payments, local>>
    /\ UNCHANGED <<packages, intents, bookings, deliveries, assets, mailErrors, refunds, now, resp>>

\* await booking.save()
WhSaveBooking(w, ok) ==
    /\ pc[w] = "saveBooking"
    /\ LET l == local[w]
       IN  IF ok
             THEN /\ bookings' = [bookings EXCEPT ![l.bookingId] =
                         SaveRow(@, l.booking, BookingModified(l.event, l.booking, l.saved, now))]
                  /\ pc' = [pc EXCEPT ![w] = "respond"]
             ELSE /\ pc' = [pc EXCEPT ![w] = "error"]
                  /\ UNCHANGED bookings
    /\ UNCHANGED <<packages, intents, payments, deliveries, assets, mailErrors, refunds, now, resp, local>>

\* res.status(200).json({received: true})
WhRespond(w) ==
    /\ pc[w] = "respond"
    /\ resp' = Response(local[w].op, 200, "received", Stripe.id, local[w].event.id)
    /\ pc' = [pc EXCEPT ![w] = "idle"]
    /\ local' = [local EXCEPT ![w] = NoLocal]
    /\ UNCHANGED <<packages, intents, bookings, payments, deliveries, assets, mailErrors, refunds, now>>

\* catchAsync hands the rejected save to errorHandler
WhError(w) ==
    /\ pc[w] = "error"
    /\ resp' = Response(local[w].op, 500, "Something went wrong!", Stripe.id,
                        local[w].event.id)
    /\ pc' = [pc EXCEPT ![w] = "idle"]
    /\ local' = [local EXCEPT ![w] = NoLocal]
    /\ UNCHANGED <<packages, intents, bookings, payments, deliveries, assets, mailErrors, refunds, now>>

(***************************************************************************)
(* createDepositPayment / createRemainingPayment await by await.  ok: the  *)
(* awaited call (processor, Payment.create, booking.save) succeeded; a     *)
(* rejected await reaches errorHandler through catchAsync.                 *)
(***************************************************************************)
IntentOps == {"createDepositPayment", "createRemainingPayment"}
RequiredStatus(op) == IF op = "createDepositPayment" THEN "Pending" ELSE "DepositPaid"
TypeOf(op) == IF op = "createDepositPayment" THEN "Deposit" ELSE "Remaining"
RefusedMessage(op) ==
    IF op = "createDepositPayment"
      THEN "Deposit has already been paid"
      ELSE "Deposit must be paid before paying the remaining amount"
AmountOf(op, b) ==
    IF op = "createDepositPayment" THEN b.pricing.depositAmount ELSE b.pricing.remainingAmount
WithIntent(op, b, intentId) ==
    IF op = "createDepositPayment"
      THEN [b EXCEPT !.stripeDepositIntentId = intentId]
      ELSE [b EXCEPT !.stripePaymentIntentId = intentId]

\* await Booking.findById(bookingId) and the three checks
CpFind(w, op, caller, bookingId) ==
    /\ pc[w] = "idle"
    /\ IF bookingId \notin DOMAIN bookings
         THEN /\ resp' = Response(op, 404, "Booking not found", caller.id, bookingId)
              /\ UNCHANGED <<pc, local>>
         ELSE IF bookings[bookingId].userId # caller.id
         THEN /\ resp' = Response(op, 403,
                                  "You are not authorized to make payment for this booking",
                                  caller.id, bookingId)
              /\ UNCHANGED <<pc, local>>
         ELSE IF bookings[bookingId].paymentStatus # RequiredStatus(op)
         THEN /\ resp' = Response(op, 400, RefusedMessage(op), caller.id, bookingId)
              /\ UNCHANGED <<pc, local>>
         ELSE /\ pc' = [pc EXCEPT ![w] = "intent"]
              /\ local' = [local EXCEPT ![w] =
                     [ op |-> op, caller |-> caller, bookingId |-> bookingId,
                       booking |-> bookings[bookingId], intentId |-> NULL ]]
              /\ UNCHANGED resp
    /\ UNCHANGED <<packages, intents, bookings, payments, deliveries, assets, mailErrors, refunds, now>>

\* await stripeService.create...PaymentIntent(...)
CpIntent(w, ok) ==
    /\ pc[w] = "intent"
    /\ IF ok
         THEN /\ Cardinality(intents) < MaxIntents
              /\ intents' = intents \cup {NewIntentId(intents)}
              /\ local' = [local EXCEPT ![w].intentId = NewIntentId(intents)]
              /\ pc' = [pc EXCEPT ![w] = "payment"]
              /\ UNCHANGED resp
         ELSE /\ resp' = Response(local[w].op, 500, "Failed to create payment intent",
                                  local[w].caller.id, local[w].bookingId)
              /\ pc' = [pc EXCEPT ![w] = "idle"]
              /\ local' = [local EXCEPT ![w] = NoLocal]
              /\ UNCHANGED intents
    /\ UNCHANGED <<packages, bookings, payments, deliveries, assets, mailErrors, refunds, now>>

\* await Payment.create({...})
CpPayment(w, ok) ==
    /\ pc[w] = "payment"
    /\ LET l == local[w]
       IN  IF ok
             THEN /\ Len(payments) < MaxPayments
                  /\ payments' = Append(payments,
                         NewPayment(l.bookingId, l.caller.id, AmountOf(l.op, l.booking),
                                    TypeOf(l.op), l.intentId))
                  /\ pc' = [pc EXCEPT ![w] = "saveBooking"]
                  /\ UNCHANGED <<resp, local>>
             ELSE /\ resp' = Response(l.op, 500, "Something went wrong!",
                                      l.caller.id, l.bookingId)
                  /\ pc' = [pc EXCEPT ![w] = "idle"]
                  /\ local' = [local EXCEPT ![w] = NoLocal]
                  /\ UNCHANGED payments
    /\ UNCHANGED <<packages, intents, bookings, deliveries, assets, mailErrors, refunds, now>>

\* A booking.save() whose rejection is swallowed.
CpSaveBookingUnchecked(w, ok) ==
    /\ pc[w] = "saveBooking"
    /\ LET l == local[w]
       IN  IF ok
             THEN bookings' = [bookings EXCEPT ![l.bookingId] =
                      SaveRow(@, l.booking, WithIntent(l.op, l.booking, l.intentId))]
             ELSE UNCHANGED bookings
    /\ pc' = [pc EXCEPT ![w] = "respond"]
    /\ UNCHANGED <<packages, intents, payments, deliveries, assets, mailErrors, refunds, now, resp, local>>

\* booking.stripe...IntentId = paymentIntentId; await booking.save()
CpSaveBooking(w, ok) ==
    /\ pc[w] = "saveBooking"
    /\ LET l == local[w]
       IN  IF ok
             THEN /\ bookings' = [bookings EXCEPT ![l.bookingId] =
                         SaveRow(@, l.booking, WithIntent(l.op, l.booking, l.intentId))]
                  /\ pc' = [pc EXCEPT ![w] = "respond"]
                  /\ UNCHANGED <<resp, local>>
             ELSE /\ resp' = Response(l.op, 500, "Something went wrong!",
                                      l.caller.id, l.bookingId)
                  /\ pc' = [pc EXCEPT ![w] = "idle"]
                  /\ local' = [local EXCEPT ![w] = NoLocal]
                  /\ UNCHANGED bookings
    /\ UNCHANGED <<packages, intents, payments, deliveries, assets, mailErrors, refunds, now>>

\* res.status(200).json({... clientSecret, paymentIntentId ...})
CpRespond(w) ==
    /\ pc[w] = "respond"
    /\ resp' = Response(local[w].op, 200, "Payment intent created successfully",
                        local[w].caller.id, local[w].intentId)
    /\ pc' = [pc EXCEPT ![w] = "idle"]
    /\ local' = [local EXCEPT ![w] = NoLocal]
    /\ UNCHANGED <<packages, intents, bookings, payments, deliveries, assets, mailErrors, refunds, now>>

(***************************************************************************)
(* createRefund (admin): POST /payments/:id/refund                         *)
(***************************************************************************)
\* payment.refundedAmount = amount || payment.amount
RefundedAmountOf(p, amount) == IF amount = NULL \/ amount = 0 THEN p.amount ELSE amount

PaymentRefundedByAdmin(p, amount, refundId, t) ==
    [p EXCEPT !.status = "Refunded",
              !.refundedAmount = RefundedAmountOf(p, amount),
              !.refundedAt = t,
              !.stripeRefundId = refundId]

BookingRefundedByAdmin(b, p) ==
    LET b1 == [b EXCEPT !.pricing.totalPaid = @ - p.refundedAmount]
    IN  IF b1.pricing.totalPaid = 0
          THEN [b1 EXCEPT !.paymentStatus = "Refunded"]
          ELSE b1

\* The whole route: restrictTo('admin'), then the handler.  paymentId: the
\* row named by :id; amount: req.body.amount (NULL when absent); stripeOk: the
\* processor created the refund.
\* A refund request that marks the Payment Refunded before it calls the
\* processor.
CreateRefundMarkingFirst(caller, paymentId, amount, stripeOk) ==
    /\ IF caller.role # "admin"
         THEN /\ resp' = Response("createRefund", 403,
                                  "You do not have permission to perform this action.",
                                  caller.id, paymentId)
              /\ UNCHANGED <<bookings, payments, refunds>>
         ELSE IF paymentId \notin DOMAIN payments
         THEN /\ resp' = Response("createRefund", 404, "Payment not found",
                                  caller.id, paymentId)
              /\ UNCHANGED <<bookings, payments, refunds>>
         ELSE IF payments[paymentId].status # "Succeeded"
         THEN /\ resp' = Response("createRefund", 400,
                                  "Only successful payments can be refunded",
                                  caller.id, paymentId)
              /\ UNCHANGED <<bookings, payments, refunds>>
         ELSE IF ~stripeOk
         THEN /\ payments' = [payments EXCEPT ![paymentId].status = "Refunded"]
              /\ resp' = Response("createRefund", 500, "Failed to create refund",
                                  caller.id, paymentId)
              /\ UNCHANGED <<bookings, refunds>>
         ELSE LET p == PaymentRefundedByAdmin(payments[paymentId], amount, paymentId, now)
              IN  /\ payments' = [payments EXCEPT ![paymentId] = p]
                  /\ bookings' = [bookings EXCEPT ![p.booking] = BookingRefundedByAdmin(@, p)]
                  /\ refunds' = refunds \cup {payments[paymentId].stripePaymentIntentId}
                  /\ resp' = Response("createRefund", 200, "Refund processed successfully",
                                      caller.id, paymentId)
    /\ UNCHANGED <<packages, intents, deliveries, assets, mailErrors, now, pc, local>>

CreateRefund(caller, paymentId, amount, stripeOk) ==
    /\ IF caller.role # "admin"
         THEN /\ resp' = Response("createRefund", 403,
                                  "You do not have permission to perform this action.",
                                  caller.id, paymentId)
              /\ UNCHANGED <<bookings, payments, refunds>>
         ELSE IF paymentId \notin DOMAIN payments
         THEN /\ resp' = Response("createRefund", 404, "Payment not found",
                                  caller.id, paymentId)
              /\ UNCHANGED <<bookings, payments, refunds>>
         ELSE IF payments[paymentId].status # "Succeeded"
         THEN /\ resp' = Response("createRefund", 400,
                                  "Only successful payments can be refunded",
                                  caller.id, paymentId)
              /\ UNCHANGED <<bookings, payments, refunds>>
         ELSE IF ~stripeOk
         THEN /\ resp' = Response("createRefund", 500, "Failed to create refund",
                                  caller.id, paymentId)
              /\ UNCHANGED <<bookings, payments, refunds>>
         ELSE LET p == PaymentRefundedByAdmin(payments[paymentId], amount, paymentId, now)
              IN  /\ payments' = [payments EXCEPT ![paymentId] = p]
                  /\ bookings' = [bookings EXCEPT ![p.booking] = BookingRefundedByAdmin(@, p)]
                  /\ refunds' = refunds \cup {payments[paymentId].stripePaymentIntentId}
                  /\ resp' = Response("createRefund", 200, "Refund processed successfully",
                                      caller.id, paymentId)
    /\ UNCHANGED <<packages, intents, deliveries, assets, mailErrors, now, pc, local>>

(***************************************************************************)
(* package.controller.js                                                   *)
(***************************************************************************)
\* A package update that reprices the bookings of the package.
UpdatePackageRepricing(caller, packageId, price, depositPercentage) ==
    /\ IF caller.role # "admin"
         THEN /\ resp' = Response("updatePackage", 403,
                                  "You do not have permission to perform this action.",
                                  caller.id, 0)
              /\ UNCHANGED <<packages, bookings>>
         ELSE IF packageId \notin DOMAIN packages
         THEN /\ resp' = Response("updatePackage", 404, "Package not found", caller.id, 0)
              /\ UNCHANGED <<packages, bookings>>
         ELSE /\ packages' = [packages EXCEPT ![packageId] =
                     [@ EXCEPT !.price = price, !.depositPercentage = depositPercentage]]
              /\ bookings' = [i \in DOMAIN bookings |->
                     IF bookings[i].packageId = packageId
                       THEN [bookings[i] EXCEPT
                              !.pricing.packagePrice = price * Percent,
                              !.pricing.depositAmount = price * depositPercentage,
                              !.pricing.remainingAmount = price * Percent - price * depositPercentage]
                       ELSE bookings[i]]
              /\ resp' = Response("updatePackage", 200, "Package updated successfully",
                                  caller.id, 0)
    /\ UNCHANGED <<intents, payments, deliveries, assets, mailErrors, refunds, now, pc, local>>

\* The whole PUT /packages/:id route: restrictTo('admin'), validate, handler.
\* price, depositPercentage: the columns req.body sets.
\* Rows are known by their position in the model; when rows are removed the
\* remaining ones move up and the references to them follow.
BookingsKept(packageId) == { i \in DOMAIN bookings : bookings[i].packageId # packageId }
Renumbered(i, packageId) == Cardinality({ j \in BookingsKept(packageId) : j <= i })

\* ON DELETE CASCADE from bookings to payments and deliveries
CascadeFrom(rows, field, packageId) ==
    LET kept == SelectSeq(rows, LAMBDA r : r[field] \in BookingsKept(packageId))
    IN  [ k \in DOMAIN kept |-> [kept[k] EXCEPT ![field] = Renumbered(@, packageId)] ]

\* The whole DELETE /packages/:id handler: pkg.destroy() removes the row and
\* the store cascades to the bookings that reference it.
DeletePackage(caller, packageId) ==
    /\ IF caller.role # "admin"
         THEN /\ resp' = Response("deletePackage", 403,
                                  "You do not have permission to perform this action.",
                                  caller.id, 0)
              /\ UNCHANGED <<packages, bookings, payments, deliveries>>
         ELSE IF packageId \notin DOMAIN packages
         THEN /\ resp' = Response("deletePackage", 404, "Package not found", caller.id, 0)
              /\ UNCHANGED <<packages, bookings, payments, deliveries>>
         ELSE /\ packages' = [ q \in DOMAIN packages \ {packageId} |-> packages[q] ]
              /\ bookings' = SelectSeq(bookings, LAMBDA b : b.packageId # packageId)
              /\ payments' = CascadeFrom(payments, "booking", packageId)
              /\ deliveries' = CascadeFrom(deliveries, "bookingId", packageId)
              /\ resp' = Response("deletePackage", 200, "Package deleted successfully",
                                  caller.id, 0)
    /\ UNCHANGED <<intents, assets, mailErrors, refunds, now, pc, local>>

UpdatePackage(caller, packageId, price, depositPercentage) ==
    /\ IF caller.role # "admin"
         THEN /\ resp' = Response("updatePackage", 403,
                                  "You do not have permission to perform this action.",
                                  caller.id, 0)
              /\ UNCHANGED packages
         ELSE IF packageId \notin DOMAIN packages
         THEN /\ resp' = Response("updatePackage", 404, "Package not found", caller.id, 0)
              /\ UNCHANGED packages
         ELSE /\ packages' = [packages EXCEPT ![packageId] =
                     [@ EXCEPT !.price = price, !.depositPercentage = depositPercentage]]
              /\ resp' = Response("updatePackage", 200, "Package updated successfully",
                                  caller.id, 0)
    /\ UNCHANGED <<intents, bookings, payments, deliveries, assets, mailErrors, refunds, now, pc, local>>

UpdatedPrices == {2000}
UpdatedDepositPercentages == {50}

(***************************************************************************)
(* delivery.controller.js                                                  *)
(***************************************************************************)
NewDelivery(bookingId, photos, expiresAt, allowDownload) ==
    [ bookingId |-> bookingId,
      photos |-> photos,
      expiresAt |-> expiresAt,
      allowDownload |-> allowDownload,
      views |-> 0,
      downloads |-> 0,
      notifiedAt |-> NULL ]

\* Update booking status to completed if not already
Delivered(b, t) ==
    IF b.bookingStatus # "Completed"
      THEN [b EXCEPT !.bookingStatus = "Completed", !.completedAt = t]
      ELSE b

DeliveryOf(dels, bookingId) == { i \in DOMAIN dels : dels[i].bookingId = bookingId }

\* The whole POST /deliveries/:bookingId route.  files: the number of photos
\* sent; uploaded: how many of them the asset store took; expiresAt,
\* allowDownload: as in req.body.
CreateDeliveryWith(caller, bookingId, files, uploaded, expiresAt, allowDownload, emailOk) ==
    /\ IF caller.role # "admin"
         THEN /\ resp' = Response("createDelivery", 403,
                                  "You do not have permission to perform this action.",
                                  caller.id, bookingId)
              /\ UNCHANGED <<bookings, deliveries, assets, mailErrors>>
         ELSE IF bookingId \notin DOMAIN bookings
         THEN /\ resp' = Response("createDelivery", 404, "Booking not found",
                                  caller.id, bookingId)
              /\ UNCHANGED <<bookings, deliveries, assets, mailErrors>>
         ELSE IF DeliveryOf(deliveries, bookingId) # {}
         THEN /\ resp' = Response("createDelivery", 400,
                                  "Delivery already exists for this booking",
                                  caller.id, bookingId)
              /\ UNCHANGED <<bookings, deliveries, assets, mailErrors>>
         ELSE IF files = 0
         THEN /\ resp' = Response("createDelivery", 400,
                                  "Please upload at least one photo", caller.id, bookingId)
              /\ UNCHANGED <<bookings, deliveries, assets, mailErrors>>
         ELSE IF uploaded < files
         THEN /\ assets + uploaded <= MaxAssets
              /\ assets' = assets + uploaded
              /\ resp' = Response("createDelivery", 500, "Failed to upload images",
                                  caller.id, bookingId)
              /\ UNCHANGED <<bookings, deliveries, mailErrors>>
         ELSE /\ assets + uploaded <= MaxAssets
              /\ assets' = assets + uploaded
              /\ deliveries' = Append(deliveries,
                     [NewDelivery(bookingId, files, expiresAt, allowDownload)
                        EXCEPT !.notifiedAt = now])
              /\ bookings' = [bookings EXCEPT ![bookingId] = Delivered(@, now)]
              /\ mailErrors' = MailSent(emailOk, "Failed to send delivery email")
              /\ resp' = Response("createDelivery", 201, "Delivery created successfully",
                                  caller.id, bookingId)
    /\ UNCHANGED <<packages, intents, payments, refunds, now, pc, local>>

\* A createDelivery that uploads the photos before it looks for an existing
\* Delivery.
CreateDeliveryUploadingFirst(caller, bookingId, files, uploadOk) ==
    /\ IF caller.role # "admin"
         THEN /\ resp' = Response("createDelivery", 403,
                                  "You do not have permission to perform this action.",
                                  caller.id, bookingId)
              /\ UNCHANGED <<bookings, deliveries, assets>>
         ELSE IF bookingId \notin DOMAIN bookings
         THEN /\ resp' = Response("createDelivery", 404, "Booking not found",
                                  caller.id, bookingId)
              /\ UNCHANGED <<bookings, deliveries, assets>>
         ELSE IF files = 0
         THEN /\ resp' = Response("createDelivery", 400,
                                  "Please upload at least one photo", caller.id, bookingId)
              /\ UNCHANGED <<bookings, deliveries, assets>>
         ELSE IF ~uploadOk
         THEN /\ resp' = Response("createDelivery", 500, "Failed to upload images",
                                  caller.id, bookingId)
              /\ UNCHANGED <<bookings, deliveries, assets>>
         ELSE IF DeliveryOf(deliveries, bookingId) # {}
         THEN /\ assets + files <= MaxAssets
              /\ assets' = assets + files
              /\ resp' = Response("createDelivery", 400,
                                  "Delivery already exists for this booking",
                                  caller.id, bookingId)
              /\ UNCHANGED <<bookings, deliveries>>
         ELSE /\ assets + files <= MaxAssets
              /\ assets' = assets + files
              /\ deliveries' = Append(deliveries,
                     [NewDelivery(bookingId, files, NULL, TRUE) EXCEPT !.notifiedAt = now])
              /\ bookings' = [bookings EXCEPT ![bookingId] = Delivered(@, now)]
              /\ resp' = Response("createDelivery", 201, "Delivery created successfully",
                                  caller.id, bookingId)
    /\ UNCHANGED <<packages, intents, payments, mailErrors, refunds, now, pc, local>>

\* A request whose body leaves expiresAt and allowDownload out.  uploadOk: the
\* asset store took every photo.
CreateDelivery(caller, bookingId, files, uploadOk) ==
    CreateDeliveryWith(caller, bookingId, files, IF uploadOk THEN files ELSE 0, NULL, TRUE, TRUE)

FileCounts == {0, 1}

\* Delivery.prototype.isExpired at time t
isExpired(d, t) ==
    IF d.expiresAt = NULL THEN FALSE ELSE d.expiresAt < t

\* req.user.role !== 'admin' && booking.userId !== req.user.id
NotAuthorized(caller, b) == caller.role # "admin" /\ b.userId # caller.id

\* A GET /deliveries/:bookingId that counts the view before it looks at the
\* expiry.
GetDeliveryCountingFirst(caller, bookingId) ==
    /\ IF DeliveryOf(deliveries, bookingId) = {}
         THEN /\ resp' = Response("getDeliveryByBookingId", 404, "Delivery not found",
                                  caller.id, bookingId)
              /\ UNCHANGED deliveries
         ELSE LET i == CHOOSE i \in DeliveryOf(deliveries, bookingId) : TRUE
              IN  IF NotAuthorized(caller, bookings[deliveries[i].bookingId])
                    THEN /\ resp' = Response("getDeliveryByBookingId", 403,
                                  "You are not authorized to view this delivery",
                                  caller.id, bookingId)
                         /\ UNCHANGED deliveries
                    ELSE /\ deliveries[i].views < MaxCount
                         /\ deliveries' = [deliveries EXCEPT ![i].views = @ + 1]
                         /\ resp' = IF isExpired(deliveries[i], now)
                                      THEN Response("getDeliveryByBookingId", 410,
                                                    "This delivery has expired",
                                                    caller.id, bookingId)
                                      ELSE Response("getDeliveryByBookingId", 200, "delivery",
                                                    caller.id, bookingId)
    /\ UNCHANGED <<packages, intents, bookings, payments, assets, mailErrors, refunds, now, pc, local>>

\* The whole GET /deliveries/:bookingId handler.
GetDeliveryByBookingId(caller, bookingId) ==
    /\ IF DeliveryOf(deliveries, bookingId) = {}
         THEN /\ resp' = Response("getDeliveryByBookingId", 404, "Delivery not found",
                                  caller.id, bookingId)
              /\ UNCHANGED deliveries
         ELSE LET i == CHOOSE i \in DeliveryOf(deliveries, bookingId) : TRUE
              IN  IF NotAuthorized(caller, bookings[deliveries[i].bookingId])
                    THEN /\ resp' = Response("getDeliveryByBookingId", 403,
                                  "You are not authorized to view this delivery",
                                  caller.id, bookingId)
                         /\ UNCHANGED deliveries
                    ELSE IF isExpired(deliveries[i], now)
                    THEN /\ resp' = Response("getDeliveryByBookingId", 410,
                                  "This delivery has expired", caller.id, bookingId)
                         /\ UNCHANGED deliveries
                    ELSE /\ deliveries[i].views < MaxCount
                         /\ deliveries' = [deliveries EXCEPT ![i].views = @ + 1]
                         /\ resp' = Response("getDeliveryByBookingId", 200, "delivery",
                                             caller.id, bookingId)
    /\ UNCHANGED <<packages, intents, bookings, payments, assets, mailErrors, refunds, now, pc, local>>

\* The whole GET /deliveries/:bookingId/download handler.
DownloadDelivery(caller, bookingId) ==
    /\ IF DeliveryOf(deliveries, bookingId) = {}
         THEN /\ resp' = Response("downloadDelivery", 404, "Delivery not found",
                                  caller.id, bookingId)
              /\ UNCHANGED deliveries
         ELSE LET i == CHOOSE i \in DeliveryOf(deliveries, bookingId) : TRUE
              IN  IF NotAuthorized(caller, bookings[deliveries[i].bookingId])
                    THEN /\ resp' = Response("downloadDelivery", 403,
                                  "You are not authorized to download this delivery",
                                  caller.id, bookingId)
                         /\ UNCHANGED deliveries
                    ELSE IF ~deliveries[i].allowDownload
                    THEN /\ resp' = Response("downloadDelivery", 403,
                                  "Downloads are not allowed for this delivery",
                                  caller.id, bookingId)
                         /\ UNCHANGED deliveries
                    ELSE IF isExpired(deliveries[i], now)
                    THEN /\ resp' = Response("downloadDelivery", 410,
                                  "This delivery has expired", caller.id, bookingId)
                         /\ UNCHANGED deliveries
                    ELSE /\ deliveries[i].downloads < MaxCount
                         /\ deliveries' = [deliveries EXCEPT ![i].downloads = @ + 1]
                         /\ resp' = Response("downloadDelivery", 200,
                                             "Download links retrieved successfully",
                                             caller.id, bookingId)
    /\ UNCHANGED <<packages, intents, bookings, payments, assets, mailErrors, refunds, now, pc, local>>

(***************************************************************************)
(* getDeliveryByBookingId and downloadDelivery await by await.  Request w  *)
(* keeps the Delivery row it loaded; save() writes the counter of that     *)
(* copy plus one.                                                          *)
(***************************************************************************)
\* await Delivery.findOne({ where: { bookingId } })
GdFind(w, caller, bookingId) ==
    /\ pc[w] = "idle"
    /\ IF DeliveryOf(deliveries, bookingId) = {}
         THEN /\ resp' = Response("getDeliveryByBookingId", 404, "Delivery not found",
                                  caller.id, bookingId)
              /\ UNCHANGED <<pc, local>>
         ELSE LET i == CHOOSE i \in DeliveryOf(deliveries, bookingId) : TRUE
              IN  /\ deliveries[i].views < MaxCount
                  /\ pc' = [pc EXCEPT ![w] = "authorizeView"]
                  /\ local' = [local EXCEPT ![w] =
                         [ op |-> "getDeliveryByBookingId", caller |-> caller,
                           bookingId |-> bookingId, deliveryId |-> i,
                           delivery |-> deliveries[i] ]]
                  /\ UNCHANGED resp
    /\ UNCHANGED <<packages, intents, bookings, payments, deliveries, assets, mailErrors, refunds, now>>

\* await Booking.findByPk(delivery.bookingId), then the checks on the copy
GdAuthorize(w) ==
    /\ pc[w] = "authorizeView"
    /\ IF NotAuthorized(local[w].caller, bookings[local[w].delivery.bookingId])
         THEN /\ resp' = Response("getDeliveryByBookingId", 403,
                                  "You are not authorized to view this delivery",
                                  local[w].caller.id, local[w].bookingId)
              /\ pc' = [pc EXCEPT ![w] = "idle"]
              /\ local' = [local EXCEPT ![w] = NoLocal]
         ELSE IF isExpired(local[w].delivery, now)
         THEN /\ resp' = Response("getDeliveryByBookingId", 410, "This delivery has expired",
                                  local[w].caller.id, local[w].bookingId)
              /\ pc' = [pc EXCEPT ![w] = "idle"]
              /\ local' = [local EXCEPT ![w] = NoLocal]
         ELSE /\ pc' = [pc EXCEPT ![w] = "saveViews"]
              /\ UNCHANGED <<resp, local>>
    /\ UNCHANGED <<packages, intents, bookings, payments, deliveries, assets, mailErrors, refunds, now>>

\* delivery.views += 1; await delivery.save({ validate: false })
GdSave(w) ==
    /\ pc[w] = "saveViews"
    /\ LET i == local[w].deliveryId
           loaded == local[w].delivery
       IN  deliveries' = [deliveries EXCEPT ![i] =
               SaveRow(@, loaded, [loaded EXCEPT !.views = @ + 1])]
    /\ resp' = Response("getDeliveryByBookingId", 200, "delivery",
                        local[w].caller.id, local[w].bookingId)
    /\ pc' = [pc EXCEPT ![w] = "idle"]
    /\ local' = [local EXCEPT ![w] = NoLocal]
    /\ UNCHANGED <<packages, intents, bookings, payments, assets, mailErrors, refunds, now>>

\* await Delivery.findOne({ where: { bookingId } })
DdFind(w, caller, bookingId) ==
    /\ pc[w] = "idle"
    /\ IF DeliveryOf(deliveries, bookingId) = {}
         THEN /\ resp' = Response("downloadDelivery", 404, "Delivery not found",
                                  caller.id, bookingId)
              /\ UNCHANGED <<pc, local>>
         ELSE LET i == CHOOSE i \in DeliveryOf(deliveries, bookingId) : TRUE
              IN  /\ deliveries[i].downloads < MaxCount
                  /\ pc' = [pc EXCEPT ![w] = "authorizeDownload"]
                  /\ local' = [local EXCEPT ![w] =
                         [ op |-> "downloadDelivery", caller |-> caller,
                           bookingId |-> bookingId, deliveryId |-> i,
                           delivery |-> deliveries[i] ]]
                  /\ UNCHANGED resp
    /\ UNCHANGED <<packages, intents, bookings, payments, deliveries, assets, mailErrors, refunds, now>>

\* await Booking.findByPk(delivery.bookingId), then the checks on the copy
DdAuthorize(w) ==
    /\ pc[w] = "authorizeDownload"
    /\ IF NotAuthorized(local[w].caller, bookings[local[w].delivery.bookingId])
         THEN /\ resp' = Response("downloadDelivery", 403,
                                  "You are not authorized to download this delivery",
                                  local[w].caller.id, local[w].bookingId)
              /\ pc' = [pc EXCEPT ![w] = "idle"]
              /\ local' = [local EXCEPT ![w] = NoLocal]
         ELSE IF ~local[w].delivery.allowDownload
         THEN /\ resp' = Response("downloadDelivery", 403,
                                  "Downloads are not allowed for this delivery",
                                  local[w].caller.id, local[w].bookingId)
              /\ pc' = [pc EXCEPT ![w] = "idle"]
              /\ local' = [local EXCEPT ![w] = NoLocal]
         ELSE IF isExpired(local[w].delivery, now)
         THEN /\ resp' = Response("downloadDelivery", 410, "This delivery has expired",
                                  local[w].caller.id, local[w].bookingId)
              /\ pc' = [pc EXCEPT ![w] = "idle"]
              /\ local' = [local EXCEPT ![w] = NoLocal]
         ELSE /\ pc' = [pc EXCEPT ![w] = "saveDownloads"]
              /\ UNCHANGED <<resp, local>>
    /\ UNCHANGED <<packages, intents, bookings, payments, deliveries, assets, mailErrors, refunds, now>>

\* delivery.downloads += 1; await delivery.save({ validate: false })
DdSave(w) ==
    /\ pc[w] = "saveDownloads"
    /\ LET i == local[w].deliveryId
           loaded == local[w].delivery
       IN  deliveries' = [deliveries EXCEPT ![i] =
               SaveRow(@, loaded, [loaded EXCEPT !.downloads = @ + 1])]
    /\ resp' = Response("downloadDelivery", 200, "Download links retrieved successfully",
                        local[w].caller.id, local[w].bookingId)
    /\ pc' = [pc EXCEPT ![w] = "idle"]
    /\ local' = [local EXCEPT ![w] = NoLocal]
    /\ UNCHANGED <<packages, intents, bookings, payments, assets, mailErrors, refunds, now>>

(***************************************************************************)
(* createDelivery await by await.  Request w keeps the booking it loaded;  *)
(* the deliveries table has a unique index on bookingId.                   *)
(***************************************************************************)
\* restrictTo('admin'), then await Booking.findByPk(bookingId)
CdFind(w, caller, bookingId, files) ==
    /\ pc[w] = "idle"
    /\ IF caller.role # "admin"
         THEN /\ resp' = Response("createDelivery", 403,
                                  "You do not have permission to perform this action.",
                                  caller.id, bookingId)
              /\ UNCHANGED <<pc, local>>
         ELSE IF bookingId \notin DOMAIN bookings
         THEN /\ resp' = Response("createDelivery", 404, "Booking not found",
                                  caller.id, bookingId)
              /\ UNCHANGED <<pc, local>>
         ELSE /\ pc' = [pc EXCEPT ![w] = "check"]
              /\ local' = [local EXCEPT ![w] =
                     [ op |-> "createDelivery", caller |-> caller, bookingId |-> bookingId,
                       booking |-> bookings[bookingId], files |-> files,
                       deliveryId |-> NULL ]]
              /\ UNCHANGED resp
    /\ UNCHANGED <<packages, intents, bookings, payments, deliveries, assets, mailErrors, refunds, now>>

\* await Delivery.findOne({where: {bookingId}}) and the check of req.files
CdCheck(w) ==
    /\ pc[w] = "check"
    /\ LET l == local[w]
       IN  IF DeliveryOf(deliveries, l.bookingId) # {}
             THEN /\ resp' = Response("createDelivery", 400,
                                      "Delivery already exists for this booking",
                                      l.caller.id, l.bookingId)
                  /\ pc' = [pc EXCEPT ![w] = "idle"]
                  /\ local' = [local EXCEPT ![w] = NoLocal]
             ELSE IF l.files = 0
             THEN /\ resp' = Response("createDelivery", 400,
                                      "Please upload at least one photo",
                                      l.caller.id, l.bookingId)
                  /\ pc' = [pc EXCEPT ![w] = "idle"]
                  /\ local' = [local EXCEPT ![w] = NoLocal]
             ELSE /\ pc' = [pc EXCEPT ![w] = "upload"]
                  /\ UNCHANGED <<resp, local>>
    /\ UNCHANGED <<packages, intents, bookings, payments, deliveries, assets, mailErrors, refunds, now>>

\* An upload that goes on with the photos the asset store took.
CdUploadKeepingUploaded(w, uploaded) ==
    /\ pc[w] = "upload"
    /\ uploaded \in 0..local[w].files
    /\ assets + uploaded <= MaxAssets
    /\ assets' = assets + uploaded
    /\ IF uploaded = 0
         THEN /\ resp' = Response("createDelivery", 500, "Failed to upload images",
                                  local[w].caller.id, local[w].bookingId)
              /\ pc' = [pc EXCEPT ![w] = "idle"]
              /\ local' = [local EXCEPT ![w] = NoLocal]
         ELSE /\ pc' = [pc EXCEPT ![w] = "create"]
              /\ local' = [local EXCEPT ![w].files = uploaded]
              /\ UNCHANGED resp
    /\ UNCHANGED <<packages, intents, bookings, payments, deliveries, mailErrors, refunds, now>>

\* await uploadMultipleImages(req.files): Promise.all over one upload per
\* photo.  uploaded: how many of the photos the asset store took.
CdUpload(w, uploaded) ==
    /\ pc[w] = "upload"
    /\ uploaded \in 0..local[w].files
    /\ assets + uploaded <= MaxAssets
    /\ assets' = assets + uploaded
    /\ IF uploaded < local[w].files
         THEN /\ resp' = Response("createDelivery", 500, "Failed to upload images",
                                  local[w].caller.id, local[w].bookingId)
              /\ pc' = [pc EXCEPT ![w] = "idle"]
              /\ local' = [local EXCEPT ![w] = NoLocal]
         ELSE /\ pc' = [pc EXCEPT ![w] = "create"]
              /\ UNCHANGED <<resp, local>>
    /\ UNCHANGED <<packages, intents, bookings, payments, deliveries, mailErrors, refunds, now>>

\* An insert into a deliveries table without the unique index.
CdCreateUnconstrained(w) ==
    /\ pc[w] = "create"
    /\ deliveries' = Append(deliveries,
           NewDelivery(local[w].bookingId, local[w].files, NULL, TRUE))
    /\ local' = [local EXCEPT ![w].deliveryId = Len(deliveries) + 1]
    /\ pc' = [pc EXCEPT ![w] = "saveBooking"]
    /\ UNCHANGED <<packages, intents, bookings, payments, assets, mailErrors, refunds, now, resp>>

\* await Delivery.create({...}): the store rejects a second row of the same
\* bookingId (SequelizeUniqueConstraintError, answered by errorHandler)
CdCreate(w) ==
    /\ pc[w] = "create"
    /\ IF DeliveryOf(deliveries, local[w].bookingId) # {}
         THEN /\ resp' = Response("createDelivery", 400, "BookingId already exists",
                                  local[w].caller.id, local[w].bookingId)
              /\ pc' = [pc EXCEPT ![w] = "idle"]
              /\ local' = [local EXCEPT ![w] = NoLocal]
              /\ UNCHANGED deliveries
         ELSE /\ deliveries' = Append(deliveries,
                     NewDelivery(local[w].bookingId, local[w].files, NULL, TRUE))
              /\ local' = [local EXCEPT ![w].deliveryId = Len(deliveries) + 1]
              /\ pc' = [pc EXCEPT ![w] = "saveBooking"]
              /\ UNCHANGED resp
    /\ UNCHANGED <<packages, intents, bookings, payments, assets, mailErrors, refunds, now>>

\* if (booking.bookingStatus !== 'Completed') {...; await booking.save()}
CdSaveBooking(w) ==
    /\ pc[w] = "saveBooking"
    /\ bookings' = [bookings EXCEPT ![local[w].bookingId] =
           SaveRow(@, local[w].booking, Delivered(local[w].booking, now))]
    /\ pc' = [pc EXCEPT ![w] = "notify"]
    /\ UNCHANGED <<packages, intents, payments, deliveries, assets, mailErrors, refunds, now, resp, local>>

\* delivery.notifiedAt = new Date(); await delivery.save(); the 201
CdNotify(w) ==
    /\ pc[w] = "notify"
    /\ deliveries' = [deliveries EXCEPT ![local[w].deliveryId].notifiedAt = now]
    /\ resp' = Response("createDelivery", 201, "Delivery created successfully",
                        local[w].caller.id, local[w].bookingId)
    /\ pc' = [pc EXCEPT ![w] = "idle"]
    /\ local' = [local EXCEPT ![w] = NoLocal]
    /\ UNCHANGED <<packages, intents, bookings, payments, assets, mailErrors, refunds, now>>

Tick ==
    /\ now < MaxNow
    /\ now' = now + 1
    /\ UNCHANGED <<packages, intents, bookings, payments, deliveries, assets, mailErrors, refunds,
                 resp, pc, local>>

Clients == { c \in Callers : c.id = "u1" }

(***************************************************************************)
(* Capacity: booking requests, each handled without interleaving, on a     *)
(* store that starts empty.                                                *)
(***************************************************************************)
NextCapacity ==
    \/ \E c \in Clients, p \in RequestedPackageIds, d \in BookingDates : CreateBooking(c, p, d)
    \/ \E c \in Callers, id \in BookingIds, r \in Reasons : CancelBooking(c, id, r)
    \/ \E c \in Callers, id \in BookingIds, s \in {"Confirmed", "Cancelled"}, r \in Reasons :
          UpdateBookingStatus(c, id, s, r)

SpecCapacity == InitEmpty /\ [][NextCapacity]_vars

(***************************************************************************)
(* Lifecycle of one booking as time passes.                                *)
(***************************************************************************)
NextLifecycle ==
    \/ \E c \in Callers, id \in BookingIds, r \in Reasons : CancelBooking(c, id, r)
    \/ \E c \in Callers, id \in BookingIds, s \in BookingStatuses, r \in Reasons :
          UpdateBookingStatus(c, id, s, r)
    \/ \E c \in Callers, id \in BookingIds, n \in FileCounts, ok \in BOOLEAN :
          CreateDelivery(c, id, n, ok)
    \/ Tick

SpecLifecycle == InitOneBooking /\ [][NextLifecycle]_vars

(***************************************************************************)
(* Payment settlement of one booking: intent requests and webhook events,  *)
(* each handled without interleaving.                                      *)
(***************************************************************************)
NextPayment ==
    \/ \E c \in Clients, id \in BookingIds, ok \in BOOLEAN : CreateDepositPayment(c, id, ok)
    \/ \E c \in Clients, id \in BookingIds, ok \in BOOLEAN : CreateRemainingPayment(c, id, ok)
    \/ \E ev \in Events : HandleStripeWebhook(TRUE, ev)
    \/ \E ev \in {e \in Events : e.id = ForeignId} : HandleStripeWebhook(FALSE, ev)

InitPayment == InitOneBooking /\ bookings[1].bookingDate = 1

Spec == InitPayment /\ [][NextPayment]_vars

(***************************************************************************)
(* createBooking requests in flight together, cancellations in between.    *)
(***************************************************************************)
NextBookingRace ==
    \/ \E w \in Workers, c \in Clients, p \in RequestedPackageIds, d \in BookingDates :
          CbFindPackage(w, c, p, d)
    \/ \E w \in Workers : CbCount(w)
    \/ \E w \in Workers : CbCreate(w)
    \/ \E c \in Clients, id \in DOMAIN bookings : CancelBooking(c, id, NullText)

SpecBookingRace == InitEmpty /\ [][NextBookingRace]_vars

(***************************************************************************)
(* Success events handled by concurrent requests, every store write        *)
(* taken.                                                                  *)
(***************************************************************************)
SuccessEvents == { e \in Events : e.type = "payment_intent.succeeded" }

NextWebhookRace ==
    \/ \E c \in Clients, id \in DOMAIN bookings : CreateDepositPayment(c, id, TRUE)
    \/ \E c \in Clients, id \in DOMAIN bookings : CreateRemainingPayment(c, id, TRUE)
    \/ \E w \in Workers, ev \in SuccessEvents : WhFind(w, ev)
    \/ \E w \in Workers : WhSavePayment(w, TRUE)
    \/ \E w \in Workers : WhSaveBooking(w, TRUE)
    \/ \E w \in Workers : WhRespond(w)

SpecWebhookRace == InitPayment /\ [][NextWebhookRace]_vars

(***************************************************************************)
(* Events handled one request at a time, a store write possibly failing.   *)
(***************************************************************************)
HandledEvents == { e \in Events : e.type # "customer.created" }

NextWebhookFailure ==
    \/ \E c \in Clients, id \in DOMAIN bookings : CreateDepositPayment(c, id, TRUE)
    \/ \E c \in Clients, id \in DOMAIN bookings : CreateRemainingPayment(c, id, TRUE)
    \/ \E ev \in HandledEvents : WhFind(1, ev)
    \/ \E ok \in BOOLEAN : WhSavePayment(1, ok)
    \/ \E ok \in BOOLEAN : WhSaveBooking(1, ok)
    \/ WhRespond(1)
    \/ WhError(1)

SpecWebhookFailure == InitPayment /\ [][NextWebhookFailure]_vars

(***************************************************************************)
(* Properties of webhook handling, one request at a time (Spec).           *)
(***************************************************************************)
SuccessType == "payment_intent.succeeded"
PaymentEventTypes == {"payment_intent.succeeded", "payment_intent.payment_failed",
                      "charge.refunded"}

\* The rows an event of type ty with id names, read off the table directly
Matches(ty, id) ==
    { i \in DOMAIN payments :
        IF ty = "charge.refunded"
          THEN payments[i].stripeChargeId = id
          ELSE payments[i].stripePaymentIntentId = id }

\* C2: a payment_intent.succeeded event for a known Payment, handled again
\* right after it was handled, changes neither the bookings nor the payments:
\* the amount is added to totalPaid once.
C2_SuccessAppliedOnce ==
    [][ ( /\ resp.op = SuccessType
          /\ resp.code = 200
          /\ Matches(SuccessType, resp.id) # {}
          /\ resp' = resp )
        => ( bookings' = bookings /\ payments' = payments ) ]_vars

\* C3: in every reachable state every booking has totalPaid <= packagePrice.
C3_TotalPaidWithinPrice ==
    \A id \in DOMAIN bookings :
        bookings[id].pricing.totalPaid <= bookings[id].pricing.packagePrice

\* C6: a verified succeeded, payment_failed or charge.refunded event whose id
\* matches no Payment row is answered 200 {received: true} and changes no
\* table.
C6_UnknownEventNoChange ==
    [][ ( /\ resp'.op \in PaymentEventTypes
          /\ Matches(resp'.op, resp'.id) = {} )
        => ( /\ resp'.code = 200
             /\ resp'.message = "received"
             /\ bookings' = bookings
             /\ payments' = payments
             /\ packages' = packages
             /\ deliveries' = deliveries ) ]_vars

\* An event about a charge of another environment was answered while
\* payments of this system exist.
C6_Witness ==
    /\ resp.op = "charge.refunded"
    /\ resp.code = 200
    /\ resp.id = ForeignId
    /\ Matches(resp.op, resp.id) = {}
    /\ Len(payments) = 2

\* The payments a success event with intent id names, by type
SucceededOf(id, paymentType) ==
    { i \in Matches(SuccessType, id) : payments[i].paymentType = paymentType }

IsFresh(b) ==
    /\ b.paymentStatus = "Pending"
    /\ b.bookingStatus = "Pending"
    /\ b.pricing.totalPaid = 0

\* C7: the success event of the Deposit payment of a new booking leaves it
\* DepositPaid, Confirmed, totalPaid = depositAmount; the success event of its
\* Remaining payment then leaves it FullyPaid with
\* totalPaid = depositAmount + remainingAmount = packagePrice.
C7_DepositThenRemaining ==
    [][ resp'.op = SuccessType =>
          /\ \A i \in SucceededOf(resp'.id, "Deposit") :
               LET id == payments[i].booking
               IN  IsFresh(bookings[id]) =>
                     /\ bookings'[id].paymentStatus = "DepositPaid"
                     /\ bookings'[id].bookingStatus = "Confirmed"
                     /\ bookings'[id].pricing.totalPaid = bookings[id].pricing.depositAmount
          /\ \A i \in SucceededOf(resp'.id, "Remaining") :
               LET id == payments[i].booking
               IN  ( /\ bookings[id].paymentStatus = "DepositPaid"
                     /\ bookings[id].bookingStatus = "Confirmed"
                     /\ bookings[id].pricing.totalPaid = bookings[id].pricing.depositAmount )
                   =>
                     /\ bookings'[id].paymentStatus = "FullyPaid"
                     /\ bookings'[id].pricing.totalPaid =
                          bookings[id].pricing.depositAmount + bookings[id].pricing.remainingAmount
                     /\ bookings'[id].pricing.totalPaid = bookings[id].pricing.packagePrice ]_vars

\* Both success events have been handled, the Remaining one last.
C7_Witness ==
    /\ resp.op = SuccessType
    /\ \E i \in SucceededOf(resp.id, "Remaining") :
          /\ payments[i].status = "Succeeded"
          /\ bookings[payments[i].booking].paymentStatus = "FullyPaid"
          /\ bookings[payments[i].booking].bookingStatus = "Confirmed"
          /\ bookings[payments[i].booking].pricing.totalPaid =
                bookings[payments[i].booking].pricing.packagePrice
          /\ \E j \in DOMAIN payments :
                /\ payments[j].paymentType = "Deposit"
                /\ payments[j].booking = payments[i].booking
                /\ payments[j].status = "Succeeded"

(***************************************************************************)
(* Properties of booking creation and capacity.                            *)
(***************************************************************************)
\* The bookings for (p, d) that are not Cancelled, read off the table directly
NonCancelledOn(p, d) ==
    Cardinality({ i \in DOMAIN bookings :
                    /\ bookings[i].packageId = p
                    /\ bookings[i].bookingDate = d
                    /\ bookings[i].bookingStatus # "Cancelled" })

\* C1: under any interleaving of concurrent createBooking requests (count,
\* then insert), the non-Cancelled bookings for a package and a date never
\* outnumber the package's maxBookingsPerDay (SpecBookingRace).
C1_CapacityNeverExceeded ==
    \A p \in PackageIds, d \in BookingDates :
        NonCancelledOn(p, d) <= packages[p].maxBookingsPerDay

Bookable(p, d) ==
    /\ p \in DOMAIN packages
    /\ packages[p].isActive
    /\ NonCancelledOn(p, d) < packages[p].maxBookingsPerDay

AtCapacity(p, d) ==
    /\ p \in DOMAIN packages
    /\ packages[p].isActive
    /\ NonCancelledOn(p, d) >= packages[p].maxBookingsPerDay

\* C8: createBooking for (p, d) answers 201 and adds a booking for (p, d) iff
\* p exists, is active and has fewer non-Cancelled bookings on d than
\* maxBookingsPerDay; at capacity it answers 400 "fully booked" and adds
\* nothing; a cancelled booking frees its place (SpecCapacity).
C8_CreateBookingIffAvailable ==
    [][ \A c \in Callers, p \in RequestedPackageIds, d \in BookingDates :
          ( resp'.op = "createBooking" /\ CreateBooking(c, p, d) ) =>
            /\ (resp'.code = 201) <=> Bookable(p, d)
            /\ Bookable(p, d) =>
                 /\ Len(bookings') = Len(bookings) + 1
                 /\ bookings'[Len(bookings')].packageId = p
                 /\ bookings'[Len(bookings')].bookingDate = d
                 /\ bookings'[Len(bookings')].bookingStatus = "Pending"
            /\ ~Bookable(p, d) => bookings' = bookings
            /\ AtCapacity(p, d) =>
                 /\ resp'.code = 400
                 /\ resp'.message = "This date is fully booked. Please choose another date." ]_vars

\* A booking was created for the package and date of a cancelled one, in a
\* package that takes one booking a day.
C8_Witness ==
    /\ resp.op = "createBooking"
    /\ resp.code = 201
    /\ resp.id = 2
    /\ Len(bookings) = 2
    /\ bookings[1].bookingStatus = "Cancelled"
    /\ bookings[2].bookingStatus = "Pending"
    /\ bookings[2].packageId = bookings[1].packageId
    /\ bookings[2].bookingDate = bookings[1].bookingDate
    /\ packages[bookings[1].packageId].maxBookingsPerDay = 1

(***************************************************************************)
(* Properties of the booking lifecycle (SpecLifecycle).                    *)
(***************************************************************************)
AdminIds == { c.id : c \in { a \in Callers : a.role = "admin" } }

NotCancellable(b, t) ==
    \/ b.bookingStatus = "Completed"
    \/ b.bookingStatus = "Cancelled"
    \/ b.bookingDate < t

\* C9: cancelBooking by the owner or an admin on a booking that is Completed,
\* Cancelled or dated in the past answers 400 and leaves bookingStatus,
\* cancelledAt and cancellationReason as they were.
C9_NotCancellableRejected ==
    [][ ( /\ resp'.op = "cancelBooking"
          /\ now' = now
          /\ resp'.id \in DOMAIN bookings
          /\ resp'.by \in AdminIds \cup { bookings[resp'.id].userId }
          /\ NotCancellable(bookings[resp'.id], now) )
        => ( /\ resp'.code = 400
             /\ resp'.message = NotCancellableMessage
             /\ bookings'[resp'.id].bookingStatus = bookings[resp'.id].bookingStatus
             /\ bookings'[resp'.id].cancelledAt = bookings[resp'.id].cancelledAt
             /\ bookings'[resp'.id].cancellationReason =
                   bookings[resp'.id].cancellationReason ) ]_vars

\* An admin was refused the cancellation of a Completed booking, and the
\* owner's booking never took a cancellation.
C9_Witness ==
    /\ resp.op = "cancelBooking"
    /\ resp.code = 400
    /\ resp.by \in AdminIds
    /\ resp.id \in DOMAIN bookings
    /\ bookings[resp.id].bookingStatus = "Completed"
    /\ bookings[resp.id].cancelledAt = NULL

Terminal == {"Completed", "Cancelled"}
Rank(status) ==
    CASE status = "Pending" -> 0
      [] status = "Confirmed" -> 1
      [] status = "InProgress" -> 2
      [] status = "Completed" -> 3
      [] OTHER -> 4

\* C10: no operation changes the bookingStatus of a Completed or Cancelled
\* booking, and no operation moves a booking backwards along
\* Pending, Confirmed, InProgress, Completed.
C10_StatusMachineRespected ==
    [][ \A id \in DOMAIN bookings \cap DOMAIN bookings' :
          LET from == bookings[id].bookingStatus
              to == bookings'[id].bookingStatus
          IN  /\ from \in Terminal => to = from
              /\ to # "Cancelled" => Rank(from) <= Rank(to) ]_vars

(***************************************************************************)
(* Properties of webhook handling await by await.                          *)
(***************************************************************************)
\* C4: when the success events of the Deposit and the Remaining payment of
\* one booking are handled together and both requests read the booking
\* before either saved it, the later save leaves totalPaid at the value read
\* plus both amounts (SpecWebhookRace).
C4_NoLostIncrement ==
    [][ \A w \in Workers, v \in Workers :
          ( /\ w # v
            /\ pc[w] = "saveBooking" /\ pc'[w] = "respond"
            /\ pc[v] = "respond"
            /\ local[w].op = SuccessType /\ local[v].op = SuccessType
            /\ local[w].bookingId = local[v].bookingId
            /\ {local[w].payment.paymentType, local[v].payment.paymentType}
                  = {"Deposit", "Remaining"}
            /\ local[w].booking.pricing.totalPaid = local[v].booking.pricing.totalPaid )
          => bookings'[local[w].bookingId].pricing.totalPaid =
                local[w].booking.pricing.totalPaid
                  + local[w].payment.amount + local[v].payment.amount ]_vars

PaymentPersisted(l) ==
    payments'[l.paymentId].status # l.payment.status

BookingPersisted(l) ==
    \/ bookings'[l.bookingId].pricing.totalPaid # l.booking.pricing.totalPaid
    \/ bookings'[l.bookingId].paymentStatus # l.booking.paymentStatus
    \/ bookings'[l.bookingId].bookingStatus # l.booking.bookingStatus

\* C5: when the handling of a success or refund event ends in an error, the
\* Payment's status change and the Booking's changes are both in the store or
\* both absent (SpecWebhookFailure).
C5_AllOrNothing ==
    [][ \A w \in Workers :
          ( /\ pc[w] = "error" /\ pc'[w] = "idle"
            /\ local[w].op \in {SuccessType, "charge.refunded"} )
          => ( PaymentPersisted(local[w]) <=> BookingPersisted(local[w]) ) ]_vars

(***************************************************************************)
(* Payments and the admin's status updates on one booking.                 *)
(***************************************************************************)
Admins == { c \in Callers : c.role = "admin" }

NextBackOffice ==
    \/ \E c \in Clients, id \in DOMAIN bookings : CreateDepositPayment(c, id, TRUE)
    \/ \E c \in Clients, id \in DOMAIN bookings : CreateRemainingPayment(c, id, TRUE)
    \/ \E ev \in SuccessEvents : HandleStripeWebhook(TRUE, ev)
    \/ \E c \in Admins, id \in DOMAIN bookings, st \in BookingStatuses, r \in Reasons :
          UpdateBookingStatus(c, id, st, r)

SpecBackOffice == InitPayment /\ [][NextBackOffice]_vars

\* C11: in every reachable state no booking has paymentStatus DepositPaid or
\* FullyPaid together with bookingStatus Pending (SpecBackOffice).
C11_PaidNeverPending ==
    \A id \in DOMAIN bookings :
        ~ ( /\ bookings[id].paymentStatus \in {"DepositPaid", "FullyPaid"}
            /\ bookings[id].bookingStatus = "Pending" )

(***************************************************************************)
(* Properties of the payments table (Spec).                                *)
(***************************************************************************)
PaymentTypes == {"Deposit", "Remaining"}

PaymentsOf(id, paymentType, status) ==
    { i \in DOMAIN payments :
        /\ payments[i].booking = id
        /\ payments[i].paymentType = paymentType
        /\ payments[i].status = status }

\* C12: in every reachable state a booking has at most one Succeeded Payment
\* of each paymentType.
C12_OneSucceededPerType ==
    \A id \in DOMAIN bookings, ty \in PaymentTypes :
        Cardinality(PaymentsOf(id, ty, "Succeeded")) <= 1

\* C13: a Payment that is Succeeded, Failed or Refunded is never reopened nor
\* moved to an earlier or sibling status: from Failed and from Refunded it
\* does not move, from Succeeded it moves to Refunded only.
C13_PaymentStatusForward ==
    [][ \A i \in DOMAIN payments :
          LET from == payments[i].status
              to == payments'[i].status
          IN  /\ from \in {"Failed", "Refunded"} => to = from
              /\ from = "Succeeded" => to \in {"Succeeded", "Refunded"} ]_vars

\* C16: in every reachable state a booking has at most one Pending Payment
\* of each paymentType.
C16_OnePendingPerType ==
    \A id \in DOMAIN bookings, ty \in PaymentTypes :
        Cardinality(PaymentsOf(id, ty, "Pending")) <= 1

(***************************************************************************)
(* Properties of the payment-intent requests (Spec).                       *)
(***************************************************************************)
IntentFieldsKept(id) ==
    /\ bookings'[id].stripeDepositIntentId = bookings[id].stripeDepositIntentId
    /\ bookings'[id].stripePaymentIntentId = bookings[id].stripePaymentIntentId

\* What a request by the booking's owner in a paymentStatus other than the
\* required one must come to
RefusedAsInvalidState(id) ==
    /\ resp'.code = 400
    /\ payments' = payments
    /\ intents' = intents
    /\ IntentFieldsKept(id)

\* C14: by the booking's owner, createDepositPayment answers 200 only when
\* paymentStatus is Pending and createRemainingPayment only when it is
\* DepositPaid; in every other paymentStatus the call answers 400, adds no
\* Payment, creates no intent at the processor and keeps the booking's
\* intent-id fields.
C14_IntentNeedsPaymentStatus ==
    [][ \A c \in Callers, id \in DOMAIN bookings, ok \in BOOLEAN :
          /\ ( /\ resp'.op = "createDepositPayment"
               /\ c.id = bookings[id].userId
               /\ CreateDepositPayment(c, id, ok) )
             => /\ resp'.code = 200 => bookings[id].paymentStatus = "Pending"
                /\ bookings[id].paymentStatus # "Pending" => RefusedAsInvalidState(id)
          /\ ( /\ resp'.op = "createRemainingPayment"
               /\ c.id = bookings[id].userId
               /\ CreateRemainingPayment(c, id, ok) )
             => /\ resp'.code = 200 => bookings[id].paymentStatus = "DepositPaid"
                /\ bookings[id].paymentStatus # "DepositPaid" => RefusedAsInvalidState(id)
      ]_vars

\* The owner asked for a deposit intent on a booking whose deposit is paid
\* and was refused.
C14_Witness ==
    /\ resp.op = "createDepositPayment"
    /\ resp.code = 400
    /\ resp.id \in DOMAIN bookings
    /\ resp.by = bookings[resp.id].userId
    /\ bookings[resp.id].paymentStatus = "DepositPaid"
    /\ Cardinality(intents) = 1

(***************************************************************************)
(* One payment-intent request at a time, await by await, next to the       *)
(* success events of the processor.                                        *)
(***************************************************************************)
\* The intents whose client secret no client holds yet: the processor reports
\* a payment only for an intent a client confirmed with its secret.
InFlightIntents ==
    { local[w].intentId : w \in { v \in Workers : pc[v] \in {"payment", "saveBooking", "respond"} } }

NextIntentSteps ==
    \/ \E op \in IntentOps, c \in Clients, id \in DOMAIN bookings : CpFind(1, op, c, id)
    \/ \E ok \in BOOLEAN : CpIntent(1, ok)
    \/ \E ok \in BOOLEAN : CpPayment(1, ok)
    \/ \E ok \in BOOLEAN : CpSaveBooking(1, ok)
    \/ CpRespond(1)
    \/ \E ev \in SuccessEvents : ev.id \notin InFlightIntents /\ HandleStripeWebhook(TRUE, ev)

SpecIntentSteps == InitPayment /\ [][NextIntentSteps]_vars

CarryingIntent(pays, intentId) ==
    { i \in DOMAIN pays : pays[i].stripePaymentIntentId = intentId }

NextSignature ==
    \/ \E c \in Clients, id \in BookingIds : CreateDepositPayment(c, id, TRUE)
    \/ \E sigOk \in BOOLEAN, ev \in Events : HandleStripeWebhook(sigOk, ev)

SpecSignature == InitPayment /\ [][NextSignature]_vars

\* C17: a webhook request whose signature is rejected is answered 400 and
\* changes no table, whatever event its body holds, the events that name a
\* known Payment included (SpecSignature).
C17_BadSignatureTouchesNothing ==
    [][ \A ev \in Events :
          HandleStripeWebhook(FALSE, ev)
          => /\ resp'.code = 400
             /\ resp'.message = "Webhook Error"
             /\ payments' = payments
             /\ bookings' = bookings
             /\ UNCHANGED <<packages, deliveries, intents>>
      ]_vars

\* A request with a bad signature was refused while a Pending Payment, which
\* the events of its intent would change, is stored.
C17_Witness ==
    /\ resp.op = "webhook"
    /\ resp.code = 400
    /\ \E i \in DOMAIN payments :
          /\ payments[i].status = "Pending"
          /\ [type |-> "payment_intent.succeeded",
              id |-> payments[i].stripePaymentIntentId,
              amount_refunded |-> 0] \in Events

\* C18: every answer to a webhook request whose signature was verified, the
\* answers to requests whose store write failed included, is 200 "received"
\* (SpecWebhookFailure).
C18_VerifiedAlwaysReceived ==
    ( resp.by = Stripe.id /\ resp.op \in EventTypes )
    => ( resp.code = 200 /\ resp.message = "received" )

(***************************************************************************)
(* The effect of payment_failed and charge.refunded events (Spec).         *)
(***************************************************************************)
FailedType == "payment_intent.payment_failed"

FailedPaymentsOf(id, paymentType) == PaymentsOf(id, paymentType, "Failed")

\* C19: a verified payment_failed event that names a Payment leaves that
\* Payment Failed with a failureReason, changes no other column and no other
\* Payment, and leaves every booking as it was; and a booking that has a
\* Failed payment and still waits for a payment of that type accepts its
\* owner's next intent request (Spec).
C19_FailureLeavesBooking ==
    [][ /\ ( /\ resp'.op = FailedType
             /\ Matches(FailedType, resp'.id) # {} )
           => /\ resp'.code = 200
              /\ bookings' = bookings
              /\ DOMAIN payments' = DOMAIN payments
              /\ \A i \in DOMAIN payments :
                    IF i \in Matches(FailedType, resp'.id)
                      THEN /\ payments'[i].status = "Failed"
                           /\ payments'[i].failureReason # NullText
                           /\ [payments'[i] EXCEPT !.status = payments[i].status,
                                                    !.failureReason = payments[i].failureReason]
                                = payments[i]
                      ELSE payments'[i] = payments[i]
        /\ \A c \in Clients, id \in BookingIds :
              /\ ( /\ resp'.op = "createDepositPayment"
                    /\ CreateDepositPayment(c, id, TRUE)
                    /\ id \in DOMAIN bookings
                    /\ c.id = bookings[id].userId
                    /\ bookings[id].paymentStatus = "Pending"
                    /\ FailedPaymentsOf(id, "Deposit") # {} )
                 => /\ resp'.code = 200
                    /\ payments' = Append(payments, payments'[Len(payments')])
                    /\ payments'[Len(payments')].status = "Pending"
                    /\ payments'[Len(payments')].paymentType = "Deposit"
                    /\ payments'[Len(payments')].booking = id
              /\ ( /\ resp'.op = "createRemainingPayment"
                    /\ CreateRemainingPayment(c, id, TRUE)
                    /\ id \in DOMAIN bookings
                    /\ c.id = bookings[id].userId
                    /\ bookings[id].paymentStatus = "DepositPaid"
                    /\ FailedPaymentsOf(id, "Remaining") # {} )
                 => /\ resp'.code = 200
                    /\ payments' = Append(payments, payments'[Len(payments')])
                    /\ payments'[Len(payments')].status = "Pending"
                    /\ payments'[Len(payments')].paymentType = "Remaining"
                    /\ payments'[Len(payments')].booking = id
      ]_vars

\* After the Deposit payment of a booking failed, the owner was handed a
\* second Deposit intent for the booking, which is still Pending.
C19_Witness ==
    /\ resp.op = "createDepositPayment"
    /\ resp.code = 200
    /\ bookings[1].paymentStatus = "Pending"
    /\ bookings[1].bookingStatus = "Pending"
    /\ bookings[1].pricing.totalPaid = 0
    /\ \E i, j \in DOMAIN payments :
          /\ i < j
          /\ payments[i].status = "Failed"
          /\ payments[i].failureReason = "Payment failed"
          /\ payments[i].paymentType = "Deposit"
          /\ payments[j].status = "Pending"
          /\ payments[j].paymentType = "Deposit"
          /\ payments[j].stripePaymentIntentId = resp.id

(***************************************************************************)
(* Refunds of a part or of the whole of a charge.                          *)
(***************************************************************************)
RefundedType == "charge.refunded"
PartialRefund == 100    \* minor units, less than any charge of the model

RefundEvents ==
    UNION { { [type |-> RefundedType, id |-> id, amount_refunded |-> a] :
                a \in {PartialRefund} \cup AmountsRefunded(id) } :
            id \in {ForeignId} \cup intents }

NextRefund ==
    \/ \E c \in Clients, id \in BookingIds : CreateDepositPayment(c, id, TRUE)
    \/ \E c \in Clients, id \in BookingIds : CreateRemainingPayment(c, id, TRUE)
    \/ \E ev \in SuccessEvents : HandleStripeWebhook(TRUE, ev)
    \/ \E ev \in RefundEvents : HandleStripeWebhook(TRUE, ev)

SpecRefund == InitPayment /\ [][NextRefund]_vars

\* C20: a verified charge.refunded event that names a Payment leaves that
\* Payment Refunded with refundedAmount the event's amount_refunded and
\* refundedAt the time of handling, takes exactly refundedAmount off the
\* booking's totalPaid and sets the booking's paymentStatus to Refunded
\* (SpecRefund).
C20_RefundApplied ==
    [][ \A ev \in RefundEvents :
          ( /\ resp'.op = RefundedType
            /\ resp'.id = ev.id
            /\ Matches(RefundedType, ev.id) # {}
            /\ HandleStripeWebhook(TRUE, ev) )
          => /\ resp'.code = 200
             /\ \A i \in Matches(RefundedType, ev.id) :
                   /\ payments'[i].status = "Refunded"
                   /\ payments'[i].refundedAmount = ev.amount_refunded * Percent
                   /\ payments'[i].refundedAt = now
                   /\ bookings'[payments[i].booking].pricing.totalPaid
                        = bookings[payments[i].booking].pricing.totalPaid
                          - payments'[i].refundedAmount
                   /\ bookings'[payments[i].booking].paymentStatus = "Refunded"
      ]_vars

\* A part of a succeeded Deposit charge was refunded: the Payment is Refunded
\* with less than its amount, and the booking keeps the rest as totalPaid.
C20_Witness ==
    /\ resp.op = RefundedType
    /\ resp.code = 200
    /\ \E i \in DOMAIN payments :
          /\ payments[i].stripeChargeId = resp.id
          /\ payments[i].status = "Refunded"
          /\ payments[i].refundedAmount > 0
          /\ payments[i].refundedAmount < payments[i].amount
          /\ payments[i].refundedAt # NULL
          /\ bookings[payments[i].booking].paymentStatus = "Refunded"
          /\ bookings[payments[i].booking].pricing.totalPaid
               = payments[i].amount - payments[i].refundedAmount

(***************************************************************************)
(* The pricing snapshot of createBooking over a catalogue of any price and *)
(* any deposit percentage.                                                 *)
(***************************************************************************)
AnyPrices == 1..MaxPrice
AnyDepositPercentages == 0..100

AnyPackageRows ==
    [ price : AnyPrices,
      depositPercentage : AnyDepositPercentages,
      maxBookingsPerDay : {2},
      isActive : {TRUE} ]

InitPricing ==
    /\ packages \in [PackageIds -> AnyPackageRows]
    /\ bookings = << >>
    /\ payments = << >>
    /\ deliveries = << >>
    /\ assets = 0
    /\ mailErrors = {}
    /\ refunds = {}
    /\ intents = {}
    /\ now = 0
    /\ resp = NoResponse
    /\ pc = [w \in Workers |-> "idle"]
    /\ local = [w \in Workers |-> NoLocal]

NextPricing ==
    \E c \in Clients, p \in PackageIds, d \in BookingDates : CreateBooking(c, p, d)

SpecPricing == InitPricing /\ [][NextPricing]_vars

RoundHalfUp(price, depositPercentage) ==
    ((price * depositPercentage + Percent \div 2) \div Percent) * Percent

\* C22: the depositAmount of every booking is price * depositPercentage / 100
\* rounded half-up to a whole number of minor units (SpecPricing).
C22_DepositRoundedHalfUp ==
    \A id \in DOMAIN bookings :
        /\ bookings[id].pricing.depositAmount % Percent = 0
        /\ bookings[id].pricing.depositAmount
             = RoundHalfUp(packages[bookings[id].packageId].price,
                           packages[bookings[id].packageId].depositPercentage)

(***************************************************************************)
(* One booking under every operation that writes a booking or its package. *)
(***************************************************************************)
NextSnapshot ==
    \/ \E c \in Admins, p \in PackageIds, pr \in UpdatedPrices, dp \in UpdatedDepositPercentages :
          UpdatePackage(c, p, pr, dp)
    \/ \E c \in Clients, id \in DOMAIN bookings : CreateDepositPayment(c, id, TRUE)
    \/ \E ev \in { e \in HandledEvents : e.id \in intents /\ e.type # FailedType } :
          HandleStripeWebhook(TRUE, ev)
    \/ \E c \in Admins, i \in DOMAIN payments : CreateRefund(c, i, NULL, TRUE)
    \/ \E c \in Admins, id \in DOMAIN bookings : UpdateBookingStatus(c, id, "InProgress", NullText)
    \/ \E c \in Clients, id \in DOMAIN bookings : CancelBooking(c, id, NullText)
    \/ \E c \in Admins, id \in DOMAIN bookings : CreateDelivery(c, id, 1, TRUE)

SpecSnapshot == InitPayment /\ [][NextSnapshot]_vars

Snapshot(b) ==
    << b.pricing.packagePrice, b.pricing.depositAmount, b.pricing.remainingAmount >>

\* C23: no step changes the packagePrice, depositAmount or remainingAmount of
\* a stored booking, and no step removes a booking (SpecSnapshot).
C23_SnapshotFrozen ==
    [][ \A id \in DOMAIN bookings :
          /\ id \in DOMAIN bookings'
          /\ Snapshot(bookings'[id]) = Snapshot(bookings[id]) ]_vars

\* The package of a booking was repriced, the deposit was paid and refunded,
\* and the booking was delivered, with the snapshot still that of creation.
C23_Witness ==
    /\ bookings[1].pricing.packagePrice # packages[bookings[1].packageId].price * Percent
    /\ bookings[1].pricing.depositAmount
         # packages[bookings[1].packageId].price * packages[bookings[1].packageId].depositPercentage
    /\ bookings[1].paymentStatus = "Refunded"
    /\ bookings[1].bookingStatus = "Completed"
    /\ deliveries # << >>

(***************************************************************************)
(* createDelivery requests in flight together on one booking.              *)
(***************************************************************************)
SentFileCounts == {0, 1, 2}

NextDeliveryRace ==
    \/ \E w \in Workers, c \in Admins, id \in BookingIds, n \in SentFileCounts :
          CdFind(w, c, id, n)
    \/ \E w \in Workers : CdCheck(w)
    \/ \E w \in Workers, k \in SentFileCounts : CdUpload(w, k)
    \/ \E w \in Workers : CdCreate(w)
    \/ \E w \in Workers : CdSaveBooking(w)
    \/ \E w \in Workers : CdNotify(w)

SpecDeliveryRace == InitPayment /\ [][NextDeliveryRace]_vars

\* C24: no booking has more than one Delivery, in any interleaving of
\* createDelivery requests (SpecDeliveryRace).
C24_OneDeliveryPerBooking ==
    \A id \in DOMAIN bookings : Cardinality(DeliveryOf(deliveries, id)) <= 1

\* Two requests for one booking both passed the existing-delivery check and
\* uploaded their photos; the insert of the second one was refused.
C24_Witness ==
    /\ resp.op = "createDelivery"
    /\ resp.code = 400
    /\ resp.message = "BookingId already exists"
    /\ Cardinality(DeliveryOf(deliveries, 1)) = 1

(***************************************************************************)
(* Delivery creation, one request at a time (SpecLifecycle).               *)
(***************************************************************************)
DeliveryTouchesNothing ==
    /\ deliveries' = deliveries
    /\ assets' = assets
    /\ bookings' = bookings

\* C25: createDelivery by an admin answers 404 for a booking that does not
\* exist, 400 "Delivery already exists" for a booking that has a Delivery and
\* 400 "Please upload at least one photo" for a request without photos; each
\* time no photo reaches the asset store, no Delivery is created and no
\* booking changes (SpecLifecycle).
C25_CreateDeliveryRefusals ==
    [][ \A c \in Admins, id \in BookingIds, n \in FileCounts, ok \in BOOLEAN :
          ( /\ resp'.op = "createDelivery"
            /\ now' = now
            /\ CreateDelivery(c, id, n, ok) )
          => /\ id \notin DOMAIN bookings
                  => ( resp'.code = 404 /\ DeliveryTouchesNothing )
             /\ ( id \in DOMAIN bookings /\ DeliveryOf(deliveries, id) # {} )
                  => ( /\ resp'.code = 400
                       /\ resp'.message = "Delivery already exists for this booking"
                       /\ DeliveryTouchesNothing )
             /\ ( id \in DOMAIN bookings /\ DeliveryOf(deliveries, id) = {} /\ n = 0 )
                  => ( /\ resp'.code = 400
                       /\ resp'.message = "Please upload at least one photo"
                       /\ DeliveryTouchesNothing )
      ]_vars

\* A second createDelivery with a photo, for a booking that has its Delivery,
\* was refused; the asset store holds the photos of the first one only.
C25_Witness ==
    /\ resp.op = "createDelivery"
    /\ resp.code = 400
    /\ resp.message = "Delivery already exists for this booking"
    /\ Len(deliveries) = 1
    /\ assets = deliveries[1].photos

\* C26: every booking that has a Delivery has bookingStatus Completed and a
\* completedAt timestamp (SpecLifecycle).
C26_DeliveredIsCompleted ==
    \A i \in DOMAIN deliveries :
        /\ bookings[deliveries[i].bookingId].bookingStatus = "Completed"
        /\ bookings[deliveries[i].bookingId].completedAt # NULL

\* C27: an upload step in which the asset store took fewer photos than the
\* request sent ends the request with 500, with no Delivery row written and
\* no booking changed; every Delivery row is created with as many photos as
\* its request sent, and no step changes the photos of a row
\* (SpecDeliveryRace).
C27_UploadFailureFailsAll ==
    [][ /\ \A w \in Workers :
             ( /\ pc[w] = "upload"
               /\ pc'[w] # "upload"
               /\ assets' - assets < local[w].files )
             => /\ pc'[w] = "idle"
                /\ resp'.op = "createDelivery"
                /\ resp'.code = 500
                /\ deliveries' = deliveries
                /\ bookings' = bookings
        /\ \A w \in Workers :
             ( pc[w] = "create" /\ pc'[w] = "saveBooking" )
             => /\ Len(deliveries') = Len(deliveries) + 1
                /\ deliveries'[Len(deliveries')].photos = local[w].files
                /\ assets >= local[w].files
        /\ \A i \in DOMAIN deliveries :
             /\ i \in DOMAIN deliveries'
             /\ deliveries'[i].photos = deliveries[i].photos
      ]_vars

\* One of the two photos of a request reached the asset store, the other
\* failed: the request was answered 500 and the booking has no Delivery.
C27_Witness ==
    /\ resp.op = "createDelivery"
    /\ resp.code = 500
    /\ assets = 1
    /\ mailErrors = {}
    /\ refunds = {}
    /\ deliveries = << >>
    /\ bookings[1].bookingStatus = "Pending"
    /\ bookings[1].completedAt = NULL
    /\ \A w \in Workers : pc[w] = "idle"

(***************************************************************************)
(* Access to the Delivery of one booking as time passes.                   *)
(***************************************************************************)
ExpiryChoices == {NULL} \cup Times

\* The store once the admin has delivered the booking of client u1.
InitDelivered ==
    /\ packages \in { c \in [PackageIds -> PackageRows] :
                        \A p \in PackageIds : c[p].isActive /\ c[p].maxBookingsPerDay = 1 }
    /\ \E p \in PackageIds :
          bookings = << Delivered(NewBooking("u1", p, 1, packages[p]), 0) >>
    /\ \E e \in ExpiryChoices, a \in BOOLEAN :
          deliveries = << [NewDelivery(1, 1, e, a) EXCEPT !.notifiedAt = 0] >>
    /\ assets = 1
    /\ mailErrors = {}
    /\ refunds = {}
    /\ payments = << >>
    /\ intents = {}
    /\ now = 0
    /\ resp = NoResponse
    /\ pc = [w \in Workers |-> "idle"]
    /\ local = [w \in Workers |-> NoLocal]

NextAccess ==
    \/ \E c \in Callers, id \in BookingIds : GetDeliveryByBookingId(c, id)
    \/ \E c \in Callers, id \in BookingIds : DownloadDelivery(c, id)
    \/ Tick

SpecAccess == InitDelivered /\ [][NextAccess]_vars

HasPassed(d) == d.expiresAt # NULL /\ now > d.expiresAt

MayAccess(c, d) == c.role = "admin" \/ c.id = bookings[d.bookingId].userId

\* C28: for a booking that has a Delivery, getDeliveryByBookingId by an
\* authorized caller answers 410 once expiresAt has passed; downloadDelivery
\* by an authorized caller answers 403 "Downloads are not allowed" when
\* allowDownload is false and 410 when downloads are allowed and expiresAt
\* has passed; both answer 403 to a caller who is neither the owner nor an
\* admin; and none of these answers changes a Delivery row (SpecAccess).
C28_RefusedAccessCountsNothing ==
    [][ \A c \in Callers, id \in DOMAIN bookings :
          \A i \in DeliveryOf(deliveries, id) :
            /\ ( /\ resp'.op = "getDeliveryByBookingId"
                  /\ now' = now
                  /\ GetDeliveryByBookingId(c, id) )
               => /\ ~MayAccess(c, deliveries[i])
                       => ( resp'.code = 403 /\ deliveries' = deliveries )
                  /\ ( MayAccess(c, deliveries[i]) /\ HasPassed(deliveries[i]) )
                       => ( resp'.code = 410 /\ deliveries' = deliveries )
            /\ ( /\ resp'.op = "downloadDelivery"
                  /\ now' = now
                  /\ DownloadDelivery(c, id) )
               => /\ ~MayAccess(c, deliveries[i])
                       => ( resp'.code = 403 /\ deliveries' = deliveries )
                  /\ ( MayAccess(c, deliveries[i]) /\ ~deliveries[i].allowDownload )
                       => ( /\ resp'.code = 403
                            /\ resp'.message = "Downloads are not allowed for this delivery"
                            /\ deliveries' = deliveries )
                  /\ ( /\ MayAccess(c, deliveries[i])
                        /\ deliveries[i].allowDownload
                        /\ HasPassed(deliveries[i]) )
                       => ( resp'.code = 410 /\ deliveries' = deliveries )
      ]_vars

\* The owner viewed the Delivery while it was valid and was refused with 410
\* after its expiry; the one view is still the count.
C28_Witness ==
    /\ resp.op = "getDeliveryByBookingId"
    /\ resp.code = 410
    /\ resp.by = bookings[1].userId
    /\ deliveries[1].views = 1
    /\ deliveries[1].downloads = 0
    /\ deliveries[1].expiresAt # NULL
    /\ now > deliveries[1].expiresAt

(***************************************************************************)
(* View and download requests in flight together on one Delivery.          *)
(***************************************************************************)
NextAccessRace ==
    \/ \E w \in Workers, c \in Callers, id \in BookingIds : GdFind(w, c, id)
    \/ \E w \in Workers : GdAuthorize(w)
    \/ \E w \in Workers : GdSave(w)
    \/ \E w \in Workers, c \in Callers, id \in BookingIds : DdFind(w, c, id)
    \/ \E w \in Workers : DdAuthorize(w)
    \/ \E w \in Workers : DdSave(w)
    \/ Tick

SpecAccessRace == InitDelivered /\ [][NextAccessRace]_vars

\* C29: no step lowers the stored views or downloads counter of a Delivery
\* (SpecAccessRace).
C29_CountersNeverDecrease ==
    [][ \A i \in DOMAIN deliveries :
          /\ deliveries'[i].views >= deliveries[i].views
          /\ deliveries'[i].downloads >= deliveries[i].downloads ]_vars

(***************************************************************************)
(* Who may read, cancel or re-status a booking.                            *)
(***************************************************************************)
NextOwnership ==
    \/ \E c \in Callers, id \in BookingIds : GetBookingById(c, id)
    \/ \E c \in Callers, id \in BookingIds, r \in Reasons : CancelBooking(c, id, r)
    \/ \E c \in Callers, id \in BookingIds, s \in BookingStatuses, r \in Reasons :
          UpdateBookingStatus(c, id, s, r)
    \/ Tick

SpecOwnership == InitOneBooking /\ [][NextOwnership]_vars

Stranger(c, b) == c.role # "admin" /\ c.id # b.userId

\* C30: getBookingById and cancelBooking by a user who is neither an admin
\* nor the booking's owner, and updateBookingStatus by any non-admin, answer
\* 403 and leave every booking as it was (SpecOwnership).
C30_OwnerOrAdminOnly ==
    [][ \A c \in Callers, id \in DOMAIN bookings :
          /\ Stranger(c, bookings[id]) =>
                /\ ( resp'.op = "getBookingById" /\ now' = now /\ GetBookingById(c, id) )
                      => ( resp'.code = 403 /\ bookings' = bookings )
                /\ \A r \in Reasons :
                      ( resp'.op = "cancelBooking" /\ now' = now /\ CancelBooking(c, id, r) )
                      => ( resp'.code = 403 /\ bookings' = bookings )
          /\ c.role # "admin" =>
                \A s \in BookingStatuses, r \in Reasons :
                      ( /\ resp'.op = "updateBookingStatus"
                        /\ now' = now
                        /\ UpdateBookingStatus(c, id, s, r) )
                      => ( resp'.code = 403 /\ bookings' = bookings )
      ]_vars

\* User u2 asked to cancel the live booking of u1 and was refused.
C30_Witness ==
    /\ resp.op = "cancelBooking"
    /\ resp.code = 403
    /\ resp.by = "u2"
    /\ resp.id \in DOMAIN bookings
    /\ bookings[resp.id].userId = "u1"
    /\ bookings[resp.id].bookingStatus \in {"Pending", "Confirmed"}
    /\ bookings[resp.id].cancelledAt = NULL

\* C31: an admin status update to Cancelled that carries no
\* cancellationReason is answered 400 and changes nothing, and in every
\* state a Cancelled booking has a cancelledAt and a cancellationReason,
\* whichever of cancelBooking and updateBookingStatus cancelled it
\* (SpecOwnership).
C31_CancelledHasStampAndReason ==
    /\ [] ( \A i \in DOMAIN bookings :
              bookings[i].bookingStatus = "Cancelled"
                 => /\ bookings[i].cancelledAt # NULL
                    /\ bookings[i].cancellationReason \notin {NullText, ""} )
    /\ [][ \A c \in Admins, id \in BookingIds :
              ( /\ resp'.op = "updateBookingStatus"
                /\ now' = now
                /\ UpdateBookingStatus(c, id, "Cancelled", NullText) )
              => ( resp'.code = 400 /\ bookings' = bookings )
       ]_vars

\* The admin cancelled a booking through the status update, with a reason.
C31_Witness ==
    /\ resp.op = "updateBookingStatus"
    /\ resp.code = 200
    /\ resp.id \in DOMAIN bookings
    /\ bookings[resp.id].bookingStatus = "Cancelled"
    /\ bookings[resp.id].cancelledAt = now
    /\ bookings[resp.id].cancellationReason = "reason given"

(***************************************************************************)
(* The catalogue and the bookings that reference it.                       *)
(***************************************************************************)
NextCatalogue ==
    \/ \E c \in Clients, p \in RequestedPackageIds, d \in BookingDates : CreateBooking(c, p, d)
    \/ \E c \in Clients, id \in DOMAIN bookings : CancelBooking(c, id, NullText)
    \/ \E c \in Clients, id \in DOMAIN bookings : CreateDepositPayment(c, id, TRUE)
    \/ \E c \in Callers, p \in RequestedPackageIds : DeletePackage(c, p)

SpecCatalogue == InitEmpty /\ [][NextCatalogue]_vars

ReferencedPackages == { bookings[i].packageId : i \in DOMAIN bookings }

\* C32: no step removes a booking, and no step removes a package that a
\* booking references (SpecCatalogue).
C32_NothingHardDeleted ==
    [][ /\ Len(bookings') >= Len(bookings)
        /\ ReferencedPackages \cap DOMAIN packages \subseteq DOMAIN packages' ]_vars

(***************************************************************************)
(* The operations that send an email, with the send failing or not.        *)
(***************************************************************************)
NotifiedStatuses == {"Confirmed", "Cancelled"}

NextNotify ==
    \/ \E c \in Clients, id \in DOMAIN bookings : CreateDepositPayment(c, id, TRUE)
    \/ \E ev \in SuccessEvents, ok \in BOOLEAN : HandleStripeWebhookWith(TRUE, ev, ok)
    \/ \E c \in Admins, id \in DOMAIN bookings, st \in NotifiedStatuses, ok \in BOOLEAN :
          UpdateBookingStatusWith(c, id, st, "reason given", ok)
    \/ \E c \in Admins, id \in DOMAIN bookings, ok \in BOOLEAN :
          CreateDeliveryWith(c, id, 1, 1, NULL, TRUE, ok)

SpecNotify == InitPayment /\ [][NextNotify]_vars

\* C33: when the email of a success event, of an admin status update to
\* Confirmed or Cancelled, or of createDelivery fails, the operation answers
\* as a success and its Payment, Booking and Delivery changes are stored
\* (SpecNotify).
C33_MailFailureIsNotFatal ==
    [][ /\ \A ev \in SuccessEvents :
              ( /\ FindByIntent(payments, ev.id) # {}
                /\ resp'.op = ev.type
                /\ HandleStripeWebhookWith(TRUE, ev, FALSE) )
              => \A i \in FindByIntent(payments, ev.id) :
                    /\ resp'.code = 200
                    /\ payments'[i].status = "Succeeded"
                    /\ bookings'[payments[i].booking].pricing.totalPaid
                          = bookings[payments[i].booking].pricing.totalPaid + payments[i].amount
        /\ \A c \in Admins, id \in DOMAIN bookings, st \in NotifiedStatuses :
              ( /\ resp'.op = "updateBookingStatus"
                /\ UpdateBookingStatusWith(c, id, st, "reason given", FALSE) )
              => /\ resp'.code = 200
                 /\ bookings'[id] = StatusUpdated(bookings[id], st, "reason given", now)
        /\ \A c \in Admins, id \in DOMAIN bookings :
              ( /\ DeliveryOf(deliveries, id) = {}
                /\ resp'.op = "createDelivery"
                /\ CreateDeliveryWith(c, id, 1, 1, NULL, TRUE, FALSE) )
              => /\ resp'.code = 201
                 /\ DeliveryOf(deliveries', id) # {}
                 /\ bookings'[id].bookingStatus = "Completed"
                 /\ bookings'[id].completedAt = now
      ]_vars

\* All three emails have failed; the deposit is paid and recorded, and the
\* delivery answered 201 and is stored.
C33_Witness ==
    /\ mailErrors = { "Failed to send receipt email",
                      "Failed to send confirmation email",
                      "Failed to send delivery email" }
    /\ resp.op = "createDelivery"
    /\ resp.code = 201
    /\ DeliveryOf(deliveries, 1) # {}
    /\ bookings[1].bookingStatus = "Completed"
    /\ bookings[1].paymentStatus = "DepositPaid"

\* C34: a success event turns a booking Confirmed only if the booking was
\* Pending (SpecSnapshot).
C34_ConfirmedOnlyFromPending ==
    [][ \A i \in DOMAIN bookings :
          ( /\ resp'.op = "payment_intent.succeeded"
            /\ bookings'[i].bookingStatus = "Confirmed"
            /\ bookings[i].bookingStatus # "Confirmed" )
          => bookings[i].bookingStatus = "Pending" ]_vars

(***************************************************************************)
(* bookingDate is a DATE column: an instant, with a time of day.           *)
(***************************************************************************)
InstantsPerDay == 2
BookingInstants == 0..(2 * InstantsPerDay - 1)
DayOf(t) == t \div InstantsPerDay

NextCalendar ==
    \/ \E c \in Clients, p \in PackageIds, d \in BookingInstants : CreateBooking(c, p, d)
    \/ \E c \in Clients, id \in DOMAIN bookings : CancelBooking(c, id, NullText)

SpecCalendar == InitEmpty /\ [][NextCalendar]_vars

LiveOnDay(packageId, day) ==
    { i \in DOMAIN bookings : /\ bookings[i].packageId = packageId
                              /\ DayOf(bookings[i].bookingDate) = day
                              /\ bookings[i].bookingStatus # "Cancelled" }

\* C35: a package never has more non-cancelled bookings on one calendar day
\* than its maxBookingsPerDay, whatever the time of day of each bookingDate
\* (SpecCalendar).
C35_CapacityPerCalendarDay ==
    \A p \in DOMAIN packages, d \in BookingInstants :
        Cardinality(LiveOnDay(p, DayOf(d))) <= packages[p].maxBookingsPerDay

(***************************************************************************)
(* Requests that are refused, among requests that are served.              *)
(***************************************************************************)
PaymentIds == 1..(Len(payments) + 1)

\* Requests name the first booking or a booking that does not exist.
RequestedBookingIds == {1, Len(bookings) + 1}

NextRejections ==
    \/ \E c \in Clients, p \in RequestedPackageIds : CreateBooking(c, p, 1)
    \/ \E c \in Clients, id \in RequestedBookingIds : CreateDepositPayment(c, id, TRUE)
    \/ \E c \in Clients : CreateRemainingPayment(c, 1, TRUE)
    \/ \E ev \in { e \in SuccessEvents : e.id \in intents } : HandleStripeWebhook(TRUE, ev)
    \/ \E c \in Callers : CancelBooking(c, 1, NullText)
    \/ \E c \in Admins, n \in FileCounts : CreateDelivery(c, 1, n, TRUE)
    \/ \E c \in Admins, i \in PaymentIds : CreateRefund(c, i, NULL, TRUE)

SpecRejections == InitPayment /\ [][NextRejections]_vars

RefusableOps ==
    { "createBooking", "createDepositPayment", "createRemainingPayment",
      "cancelBooking", "createDelivery", "createRefund" }

\* C36: a createBooking, createDepositPayment, createRemainingPayment,
\* cancelBooking, createDelivery or createRefund request that is answered
\* with a 4xx status leaves the bookings, payments and deliveries tables
\* exactly as they were (SpecRejections).
C36_RefusalLeavesRows ==
    [][ ( /\ resp' # resp
          /\ resp'.op \in RefusableOps
          /\ resp'.code \in 400..499 )
        => /\ bookings' = bookings
           /\ payments' = payments
           /\ deliveries' = deliveries ]_vars

\* The admin asked to refund a payment that is already Refunded and was
\* answered 400; the payment and the booking keep the first refund.
C36_Witness ==
    /\ resp.op = "createRefund"
    /\ resp.code = 400
    /\ resp.id \in DOMAIN payments
    /\ payments[resp.id].status = "Refunded"
    /\ bookings[payments[resp.id].booking].paymentStatus = "Refunded"

(***************************************************************************)
(* Refunds asked by the admin and refunds announced by the processor.      *)
(***************************************************************************)
NextRefundTwice ==
    \/ \E c \in Clients, id \in DOMAIN bookings : CreateDepositPayment(c, id, TRUE)
    \/ \E ev \in { e \in SuccessEvents : e.id \in intents } : HandleStripeWebhook(TRUE, ev)
    \/ \E c \in Admins, i \in PaymentIds : CreateRefund(c, i, NULL, TRUE)
    \/ \E ev \in { e \in RefundEvents : e.id \in intents } : HandleStripeWebhook(TRUE, ev)

SpecRefundTwice == InitPayment /\ [][NextRefundTwice]_vars

\* C37: in every state every booking's pricing.totalPaid is at least 0
\* (SpecRefundTwice).
C37_TotalPaidNonNegative ==
    \A i \in DOMAIN bookings : bookings[i].pricing.totalPaid >= 0

LiveBookings(bks, packageId, bookingDate) ==
    { i \in DOMAIN bks : /\ bks[i].packageId = packageId
                         /\ bks[i].bookingDate = bookingDate
                         /\ bks[i].bookingStatus # "Cancelled" }

\* C38: no step that takes a booking out of Cancelled leaves its package
\* with more non-cancelled bookings on its date than maxBookingsPerDay
\* (SpecCapacity).
C38_ReopeningKeepsCapacity ==
    [][ \A i \in DOMAIN bookings :
          ( /\ bookings[i].bookingStatus = "Cancelled"
            /\ bookings'[i].bookingStatus # "Cancelled" )
          => Cardinality(LiveBookings(bookings', bookings[i].packageId, bookings[i].bookingDate))
                <= packages[bookings[i].packageId].maxBookingsPerDay ]_vars

\* C39: a booking's paymentStatus never goes back: from FullyPaid it only
\* becomes Refunded, and from Refunded it never becomes DepositPaid or
\* FullyPaid (SpecRefund).
C39_PaymentStatusNeverRegresses ==
    [][ \A i \in DOMAIN bookings :
          LET from == bookings[i].paymentStatus
              to == bookings'[i].paymentStatus
          IN  /\ from = "FullyPaid" => to \in {"FullyPaid", "Refunded"}
              /\ from = "Refunded" => to \notin {"DepositPaid", "FullyPaid"} ]_vars

(***************************************************************************)
(* Admin refunds of payments in every status, the processor answering or   *)
(* failing.                                                                *)
(***************************************************************************)
NextAdminRefund ==
    \/ \E c \in Clients, id \in DOMAIN bookings : CreateDepositPayment(c, id, TRUE)
    \/ \E ev \in { e \in HandledEvents : e.id \in intents /\ e.type # RefundedType } :
          HandleStripeWebhook(TRUE, ev)
    \/ \E c \in Admins, i \in PaymentIds, ok \in BOOLEAN : CreateRefund(c, i, NULL, ok)

SpecAdminRefund == InitPayment /\ [][NextAdminRefund]_vars

\* C40: createRefund on a Payment that is not Succeeded answers 400, asks
\* the processor for nothing and changes no Payment and no booking; and
\* when the processor's refund call fails on a Succeeded Payment, no
\* Payment and no booking changes either (SpecAdminRefund).
C40_RefusedRefundChangesNothing ==
    [][ \A c \in Admins, i \in DOMAIN payments, ok \in BOOLEAN :
          ( resp'.op = "createRefund" /\ CreateRefund(c, i, NULL, ok) )
          => /\ payments[i].status # "Succeeded"
                  => /\ resp'.code = 400
                     /\ refunds' = refunds
                     /\ payments' = payments
                     /\ bookings' = bookings
             /\ ( payments[i].status = "Succeeded" /\ ~ok )
                  => /\ resp'.code = 500
                     /\ refunds' = refunds
                     /\ payments' = payments
                     /\ bookings' = bookings
      ]_vars

\* The processor failed the refund of a Succeeded deposit: the Payment is
\* still Succeeded and the booking still counts it.
C40_Witness ==
    /\ resp.op = "createRefund"
    /\ resp.code = 500
    /\ resp.id \in DOMAIN payments
    /\ payments[resp.id].status = "Succeeded"
    /\ payments[resp.id].refundedAmount = 0
    /\ bookings[payments[resp.id].booking].pricing.totalPaid = payments[resp.id].amount
    /\ bookings[payments[resp.id].booking].paymentStatus = "DepositPaid"
    /\ refunds = {}

====
